---- MODULE Spec2Model ----
(***************************************************************************)
(* Verification model of the gura_forge seismic acquisition pipeline:      *)
(*   - SeismicDownloader / IGPDownloader (modules/downloader): the         *)
(*     per-event, per-station download - parse - persist loop and its      *)
(*     sync session,                                                       *)
(*   - SeismicRecordsHandler (libs/database/seismic_records.py): the       *)
(*     station / acceleration-record / sample / sync-session operations,   *)
(*   - SeismicScraper.scrape_events (modules/catalog_scraper): the         *)
(*     concurrent (catalog, year) harvest.                                 *)
(***************************************************************************)
EXTENDS Integers, Sequences, FiniteSets, TLC

VARIABLES
    stationRows,   \* table seismic_station: set of [id, code]
    recordRows,    \* table seismic_acceleration_record: set of [id, event_id, station_id]
    sampleRows,    \* table acceleration_sample: set of [record_id, sample_index, triple]
    syncRows,      \* table sync_record: sequence (index = id) of [status, processed, inserted, updates]
    run,           \* SeismicDownloader instance state + position of process_catalog
    ev,            \* per submitted event: the _process_single_event task and its IGPDownloader
    st,            \* per event, per station: the StationProcessor.process task
    results,       \* _process_events_parallel: results list (sequence of EventResult)
    resp,          \* the dictionary last returned by process_events / process_catalog
    seismicEvents, \* table seismic_events: set of [event_id, catalog, rev]
    syncCatalog,   \* table sync_catalog: (catalog, year) -> status last logged
    task,          \* scrape_events: the submitted scrape_catalog tasks, in submission order
    scResults,     \* scrape_events: the results dictionary, by key
    scrape,        \* SeismicScraper instance state + position of scrape_events
    call,          \* the last direct call of a handler / parser operation: arguments and result
    plot           \* matplotlib.pyplot savefig / show, the PlotConfig class attributes, the last call

dlVars == <<stationRows, recordRows, sampleRows, syncRows, run, ev, st, results, resp>>

scVars == <<seismicEvents, syncCatalog, task, scResults, scrape>>

vars == <<dlVars, scVars, call, plot>>

----------------------------------------------------------------------------
(* Bounds of the model *)

\* largest max_workers (parallel events) a caller passes; 0 is passed too
MaxParallelEvents == 2
\* largest parallel_stations a caller passes
MaxParallelStations == 2
\* largest limit / num_events a caller passes
MaxLimit == 2
\* rows per executemany batch (BATCH_SIZE_SQL_VAR), scaled down
BatchSize == 2
\* largest max_workers a SeismicScraper is built with; 0 is passed too
MaxScrapeWorkers == 2
\* most records (features, lines, elements, rows) in one source payload
MaxRecords == 2
\* most sample triples in the table of a report
MaxSamples == 3
\* most failed events of one run handed to _build_success_response
MaxFailed == 12
\* most characters in the value of a field line, most lines after the
\* section heading, and most lines of a report body
MaxValueLen == 2
MaxFieldLines == 2
MaxLines == 5
\* most elements of an IGP response
MaxItems == 3
\* longest dates list and largest n_xticks of a PlotConfig
MaxDates == 9
MaxTicks == 6

----------------------------------------------------------------------------
(* Inputs *)

\* rows of seismic_events, in rowid order
EventTable ==
    << [event_id |-> "e1", catalog |-> "igp"],
       [event_id |-> "e2", catalog |-> "igp"],
       [event_id |-> "u1", catalog |-> "usgs"] >>

Catalogs == {"igp", "usgs"}

\* a candidate without event_id (event.get("event_id") is None)
NoEventId == ""

\* candidate lists handed directly to process_catalog
DirectCandidates == { << NoEventId, "e2" >> }

\* the event_time values of the candidates of a direct call:
\* event.get("event_time") is a datetime ("datetime"), a string one of the
\* formats parses ("text"), a string none parses ("unparsable") or None
\* ("missing")
DirectTimes == { << "text", "text" >>, << "text", "missing" >> }

\* no datetime (None): what "not event_time" tests for
NoEventTime == "None"

\* _normalize_event_time: the datetime given or parsed, else datetime.now()
normalize_event_time(event_time) ==
    IF event_time = "datetime" THEN "given"
    ELSE IF event_time = "text" THEN "parsed"
    ELSE "now"

\* "stats" entries of a breadcrumb response
Stat(c, nom, ncoords) == [cod |-> c, nom |-> nom, ncoords |-> ncoords]
GoodStat(c) == Stat(c, TRUE, 2)

\* breadcrumb responses (event_data["stats"]) the API gives for an event
Responses(event_id) ==
    IF event_id = "e1"
    THEN { << >>,
           << Stat("B", FALSE, 2) >>,
           << GoodStat("A"), Stat("", TRUE, 2), GoodStat("B") >>,
           << GoodStat("A"), GoodStat("A") >> }
    ELSE { << Stat("A", TRUE, 1) >>,
           << GoodStat("A") >> }

\* number of sample triples in the table of a well-formed report
FileSampleCounts == {0, 3}

EvSlots == 1 .. 2
StSlots == 1 .. 2

----------------------------------------------------------------------------
(* Helpers *)

Take(s, n) == IF Len(s) <= n THEN s ELSE SubSeq(s, 1, n)

Min(a, b) == IF a <= b THEN a ELSE b

RECURSIVE SumOver(_, _)
\* sum of f[x] over the finite set S
SumOver(S, f) ==
    IF S = {} THEN 0
    ELSE LET x == CHOOSE y \in S : TRUE IN f[x] + SumOver(S \ {x}, f)

----------------------------------------------------------------------------
(* StationProcessStatus, EventResult, EventProcessMetrics *)

SUCCESS == "SUCCESS"
FILE_NOT_FOUND == "FILE_NOT_FOUND"
PARSE_ERROR == "PARSE_ERROR"
DB_STATION_SAVE_ERROR == "DB_STATION_SAVE_ERROR"
DB_RECORD_SAVE_ERROR == "DB_RECORD_SAVE_ERROR"
DB_SAMPLES_SAVE_ERROR == "DB_SAMPLES_SAVE_ERROR"

StationProcessStatus ==
    { SUCCESS, FILE_NOT_FOUND, PARSE_ERROR, DB_STATION_SAVE_ERROR,
      DB_RECORD_SAVE_ERROR, DB_SAMPLES_SAVE_ERROR }

EventResult(id, ok, nst, nsm, err) ==
    [event_id |-> id, success |-> ok, stations_processed |-> nst,
     samples_total |-> nsm, error |-> err]

NoResult == EventResult("", FALSE, 0, 0, "")

EventProcessMetrics ==
    [total_events_requested |-> 0, events_downloaded |-> 0,
     events_failed_download |-> 0, events_parse_error |-> 0,
     stations_processed |-> 0, stations_saved_db |-> 0,
     stations_file_not_found |-> 0, stations_parse_error |-> 0,
     stations_db_error |-> 0, total_samples |-> 0]

\* attributes an IGPDownloader instance has
IGPDownloaderAttrs ==
    { "max_workers", "accel_dir", "api_client", "file_downloader", "parser",
      "metrics", "process_event", "_process_stations_parallel",
      "_update_metrics", "metadata" }

Codes == {"A", "B"}

\* DatabaseBatch._station_cache of one event (0 = code not cached)
EmptyCache == [c \in Codes |-> 0]

EvInit ==
    [pc |-> "none", event_id |-> "", stations |-> << >>, cache |-> EmptyCache,
     order |-> << >>, posts |-> 0, resent |-> 0, ret |-> FALSE,
     metrics |-> EventProcessMetrics, result |-> NoResult, collected |-> FALSE,
     event_time |-> NoEventTime]

StInit ==
    [pc |-> "idle", sel |-> 0, sid |-> 0, rid |-> 0,
     status |-> "pending", samples_count |-> 0,
     steps |-> 0, failed |-> 0, fault |-> FALSE, saved |-> FALSE, gets |-> 0,
     resent |-> 0]

NoResp == [kind |-> "none"]

Run0 ==
    [phase |-> "idle", runs |-> 0, catalog |-> "", events |-> << >>,
     times |-> << >>, mw |-> 0, ps |-> 0, sync_id |-> 0, sub |-> 0, writes |-> 0,
     total_events |-> 0, processed_events |-> 0, successful_events |-> 0,
     failed_events |-> 0, total_stations |-> 0, total_samples |-> 0,
     failed_event_list |-> << >>]

\* SeismicDownloader.CATALOG_PROCESSORS
CATALOG_PROCESSORS == {"igp"}

\* EventAPIClient._build_session: HTTPAdapter(max_retries=2)
PostRetries == 2
\* StationProcessor._build_session: HTTPAdapter(max_retries=1)
GetRetries == 1

----------------------------------------------------------------------------
(* SeismicRecordsHandler: the store operations *)

\* SELECT id FROM seismic_station WHERE code = ?  (fetchone; 0 = no row)
SelectStationId(code) ==
    IF \E r \in stationRows : r.code = code
    THEN (CHOOSE r \in stationRows : r.code = code).id
    ELSE 0

\* schema: seismic_station.code is the key the station is persisted under
StationCodeUnique == TRUE

\* INSERT INTO seismic_station: lastrowid, or 0 when the insert raises
\* (IntegrityError on the code key)
InsertStationId(code) ==
    IF StationCodeUnique /\ \E r \in stationRows : r.code = code
    THEN 0
    ELSE Cardinality(stationRows) + 1

\* SELECT id FROM seismic_acceleration_record WHERE event_id = ? AND station_id = ?
SelectRecordId(event_id, station_id) ==
    IF \E r \in recordRows : r.event_id = event_id /\ r.station_id = station_id
    THEN (CHOOSE r \in recordRows :
              r.event_id = event_id /\ r.station_id = station_id).id
    ELSE 0

\* INSERT INTO seismic_acceleration_record: lastrowid, or 0 when the insert
\* raises (UNIQUE(event_id, station_id))
InsertRecordId(event_id, station_id) ==
    IF \E r \in recordRows : r.event_id = event_id /\ r.station_id = station_id
    THEN 0
    ELSE Cardinality(recordRows) + 1

\* the rows one batch writes: batch = samples[i : i + batch_size], and
\* (idx + i, batch[idx]) for idx, triple in enumerate(batch)
BatchRows(samples, i, batch_size) ==
    LET batch == SubSeq(samples, i + 1, Min(i + batch_size, Len(samples)))
    IN { [sample_index |-> idx + i, triple |-> batch[idx + 1]] :
           idx \in 0 .. (Len(batch) - 1) }

\* insert_acceleration_samples inside its transaction: DELETE, then batched
\* INSERT; the triples of a report are numbered 1 .. n in file order
ReplaceSamples(rows, record_id, n) ==
    LET samples == [k \in 1 .. n |-> k]
        starts == { i \in 0 .. (n - 1) : i % BatchSize = 0 }
    IN { r \in rows : r.record_id # record_id }
         \cup { [record_id |-> record_id, sample_index |-> b.sample_index,
                 triple |-> b.triple] :
                b \in UNION { BatchRows(samples, i, BatchSize) : i \in starts } }

\* get_events_without_records: events of the catalog with no acceleration
\* record, in table order, cut at LIMIT
RECURSIVE PendingFrom(_, _)
PendingFrom(table, catalog) ==
    IF table = << >> THEN << >>
    ELSE LET e == Head(table)
             rest == PendingFrom(Tail(table), catalog)
         IN IF e.catalog = catalog
               /\ e.event_id \notin { r.event_id : r \in recordRows }
            THEN << e >> \o rest
            ELSE rest

\* the same query without its NOT IN (records) filter
get_events_without_records_Unfiltered(catalog, limit) ==
    Take(SelectSeq(EventTable, LAMBDA e : e.catalog = catalog), limit)

get_events_without_records(catalog, limit) ==
    Take(PendingFrom(EventTable, catalog), limit)

\* update_sync_session: the UPDATE of sync_record committed (ok) or raised
update_sync_session(rows, sync_id, processed, inserted, status, ok) ==
    IF ok /\ sync_id \in DOMAIN rows
    THEN [rows EXCEPT ![sync_id] =
             [status |-> status, processed |-> processed,
              inserted |-> inserted, updates |-> @.updates + 1]]
    ELSE rows

----------------------------------------------------------------------------
(* SeismicDownloader *)

\* _build_error_response
ErrorResponse(r, kind) ==
    [kind |-> kind, success |-> FALSE, sync_id |-> r.sync_id,
     total_events |-> r.total_events, processed_events |-> r.processed_events]

\* _build_success_response
SuccessResponse(r, status) ==
    [kind |-> "success", success |-> TRUE, sync_id |-> r.sync_id,
     status |-> status, total_events |-> r.total_events,
     processed_events |-> r.processed_events,
     successful_events |-> r.successful_events,
     failed_events |-> r.failed_events,
     total_stations |-> r.total_stations,
     total_samples |-> r.total_samples,
     errors |-> Take(r.failed_event_list, 10)]

RECURSIVE FailedList(_)
FailedList(rs) ==
    IF rs = << >> THEN << >>
    ELSE IF Head(rs).success THEN FailedList(Tail(rs))
         ELSE << << Head(rs).event_id, Head(rs).error >> >> \o FailedList(Tail(rs))

\* _calculate_metrics
CalculateMetrics(r, rs) ==
    LET idx == 1 .. Len(rs)
        ok == Cardinality({ k \in idx : rs[k].success })
    IN [r EXCEPT !.processed_events = Len(rs),
                 !.successful_events = ok,
                 !.failed_events = Len(rs) - ok,
                 !.total_stations = SumOver(idx, [k \in idx |-> rs[k].stations_processed]),
                 !.total_samples = SumOver(idx, [k \in idx |-> rs[k].samples_total]),
                 !.failed_event_list = FailedList(rs)]

\* _process_single_event after process_event returned: reading
\* processor.successful_stations / processor.total_samples raises
\* AttributeError when the processor has no such attribute
SingleEventResult(event_id, success, m) ==
    IF success
    THEN IF {"successful_stations", "total_samples"} \subseteq IGPDownloaderAttrs
         THEN EventResult(event_id, TRUE, m.stations_saved_db, m.total_samples, "")
         ELSE EventResult(event_id, FALSE, 0, 0, "AttributeError")
    ELSE EventResult(event_id, FALSE, 0, 0, "Procesamiento fallido")

\* _handle_critical_error + _build_error_response (process_catalog, except branch)
CriticalError(r, rows, ok) ==
    /\ syncRows' = IF r.sync_id # 0
                   THEN update_sync_session(rows, r.sync_id, r.processed_events,
                                            r.successful_events, "failed", ok)
                   ELSE rows
    /\ run' = [r EXCEPT !.phase = "idle"]
    /\ resp' = ErrorResponse(r, "critical")

\* start_sync_session: the id of the sync_record row inserted, or 0 (None)
\* when the transaction raised
start_sync_session(rows, opened) == IF opened THEN Len(rows) + 1 ELSE 0

\* process_catalog: "if not self.sync_id"
SessionMissing_Ignored(sync_id) == FALSE

SessionMissing(sync_id) == sync_id = 0

\* process_catalog up to the creation of the outer pool: reset, catalog check,
\* start_sync_session, ThreadPoolExecutor(max_workers)
process_catalog(catalog, events, times, mw, ps) ==
    LET r0 == [Run0 EXCEPT !.runs = run.runs + 1, !.catalog = catalog,
                           !.events = events, !.times = times, !.total_events = Len(events),
                           !.mw = mw, !.ps = ps]
    IN /\ ev' = [i \in EvSlots |-> EvInit]
       /\ st' = [i \in EvSlots |-> [j \in StSlots |-> StInit]]
       /\ results' = << >>
       /\ UNCHANGED <<stationRows, recordRows, sampleRows>>
       /\ IF catalog \notin CATALOG_PROCESSORS
          THEN /\ run' = r0
               /\ resp' = ErrorResponse(r0, "unsupported")
               /\ UNCHANGED syncRows
          ELSE \E opened \in BOOLEAN :
                 LET sync_id == start_sync_session(syncRows, opened)
                     rows == IF opened
                             THEN Append(syncRows,
                                     [status |-> "running", processed |-> 0,
                                      inserted |-> 0, updates |-> 0])
                             ELSE syncRows
                     r1 == [r0 EXCEPT !.sync_id = sync_id]
                 IN IF SessionMissing(sync_id)
                    THEN /\ run' = r1
                         /\ resp' = ErrorResponse(r1, "sync_fail")
                         /\ syncRows' = rows
                    ELSE IF mw < 1
                         THEN \* ThreadPoolExecutor raises ValueError
                              \E ok \in BOOLEAN : CriticalError(r1, rows, ok)
                         ELSE /\ syncRows' = rows
                              /\ run' = [r1 EXCEPT !.phase = IF events = << >>
                                                             THEN "collect" ELSE "submit"]
                              /\ resp' = NoResp

\* a caller invokes process_catalog with its own candidate list
ProcessCatalog ==
    /\ UNCHANGED <<scVars, call, plot>>
    /\ run.phase = "idle"
    /\ run.runs = 0
    /\ \E events \in DirectCandidates, times \in DirectTimes,
          mw \in 0 .. MaxParallelEvents, ps \in 1 .. MaxParallelStations :
         process_catalog("igp", events, times, mw, ps)

\* process_events: get_events_to_process, then process_catalog
ProcessEvents ==
    /\ UNCHANGED <<scVars, call, plot>>
    /\ run.phase = "idle"
    /\ run.runs = 0
    /\ \E catalog \in Catalogs, num_events \in 0 .. MaxLimit, readOk \in BOOLEAN :
         LET rows == IF readOk THEN get_events_without_records(catalog, num_events)
                     ELSE << >>
             events == [k \in 1 .. Len(rows) |-> rows[k].event_id]
             \* seismic_events.event_time is NOT NULL and read back as text
             times == [k \in 1 .. Len(rows) |-> "text"]
         IN IF events = << >>
            THEN /\ run' = [Run0 EXCEPT !.runs = run.runs + 1, !.catalog = catalog]
                 /\ resp' = [kind |-> "no_events", success |-> TRUE, total_events |-> 0]
                 /\ UNCHANGED <<stationRows, recordRows, sampleRows, syncRows,
                                ev, st, results>>
            ELSE \E mw \in 0 .. MaxParallelEvents, ps \in 1 .. MaxParallelStations :
                    process_catalog(catalog, events, times, mw, ps)

\* one iteration of the submit loop of _process_events_parallel
SubmitEvent ==
    /\ UNCHANGED <<scVars, call, plot>>
    /\ run.phase = "submit"
    /\ LET k == run.sub + 1
           event_id == run.events[k]
           event_time == normalize_event_time(run.times[k])
           phase == IF k = Len(run.events) THEN "collect" ELSE "submit"
       IN /\ run' = [run EXCEPT !.sub = k, !.phase = phase]
          /\ IF event_id = NoEventId \/ event_time = NoEventTime
             THEN /\ results' = Append(results,
                        EventResult("None", FALSE, 0, 0, "Datos de evento incompletos"))
                  /\ UNCHANGED ev
             ELSE /\ ev' = [ev EXCEPT ![k].pc = "queued", ![k].event_id = event_id,
                                       ![k].event_time = event_time]
                  /\ UNCHANGED results
    /\ UNCHANGED <<stationRows, recordRows, sampleRows, syncRows, st, resp>>

RunningEvents == { k \in EvSlots : ev[k].pc \in {"fetch", "stations", "stuck"} }

EventStart_Unbounded(i) ==
    /\ UNCHANGED <<scVars, call, plot>>
    /\ ev[i].pc = "queued"
    /\ \E built \in BOOLEAN :
         ev' = [ev EXCEPT ![i].pc = IF built THEN "fetch" ELSE "raised"]
    /\ UNCHANGED <<stationRows, recordRows, sampleRows, syncRows, run, st,
                   results, resp>>

\* a worker of the outer pool takes the next queued event task:
\* _process_single_event constructs the processor
EventStart(i) ==
    /\ UNCHANGED <<scVars, call, plot>>
    /\ ev[i].pc = "queued"
    /\ Cardinality(RunningEvents) < run.mw
    /\ \A k \in EvSlots : k < i => ev[k].pc # "queued"
    /\ \E built \in BOOLEAN :
         ev' = [ev EXCEPT ![i].pc = IF built THEN "fetch" ELSE "raised"]
    /\ UNCHANGED <<stationRows, recordRows, sampleRows, syncRows, run, st,
                   results, resp>>

RECURSIVE extract(_)
\* StationExtractor.extract
extract(stats) ==
    IF stats = << >> THEN << >>
    ELSE LET s == Head(stats)
         IN IF s.cod = "" THEN extract(Tail(stats))
            ELSE IF s.nom /\ s.ncoords >= 2
                 THEN << s.cod >> \o extract(Tail(stats))
                 ELSE extract(Tail(stats))

\* the adapter of the breadcrumb session sends the POST again after a
\* connection failure or connect timeout, while retries are left
ResendPost(i) ==
    /\ UNCHANGED <<scVars, call, plot>>
    /\ ev[i].pc = "fetch"
    /\ ev[i].resent < PostRetries
    /\ ev' = [ev EXCEPT ![i].resent = @ + 1]
    /\ UNCHANGED <<stationRows, recordRows, sampleRows, syncRows, run, st,
                   results, resp>>

\* process_event up to the submission of the station tasks
FetchEventData(i) ==
    /\ UNCHANGED <<scVars, call, plot>>
    /\ ev[i].pc = "fetch"
    /\ LET m0 == [ev[i].metrics EXCEPT !.total_events_requested = @ + 1]
       IN \E outcome \in {"fail", "hang", "ok"} :
            CASE outcome = "fail" ->
                   LET m == [m0 EXCEPT !.events_failed_download = @ + 1]
                   IN /\ ev' = [ev EXCEPT ![i].pc = "done", ![i].posts = @ + 1, ![i].resent = 0,
                                   ![i].metrics = m, ![i].ret = FALSE,
                                   ![i].result = SingleEventResult(ev[i].event_id, FALSE, m)]
                      /\ UNCHANGED st
              [] outcome = "hang" ->
                   /\ ev' = [ev EXCEPT ![i].pc = "stuck", ![i].posts = @ + 1,
                                       ![i].metrics = m0]
                   /\ UNCHANGED st
              [] outcome = "ok" ->
                   \E stats \in Responses(ev[i].event_id) :
                     LET stations == extract(stats)
                         m1 == [m0 EXCEPT !.events_downloaded = @ + 1]
                     IN IF stations = << >>
                        THEN LET m == [m1 EXCEPT !.events_parse_error = @ + 1]
                             IN /\ ev' = [ev EXCEPT ![i].pc = "done", ![i].posts = @ + 1, ![i].resent = 0,
                                             ![i].metrics = m, ![i].ret = FALSE,
                                             ![i].result =
                                                SingleEventResult(ev[i].event_id, FALSE, m)]
                                /\ UNCHANGED st
                        ELSE /\ ev' = [ev EXCEPT ![i].pc = "stations", ![i].posts = @ + 1, ![i].resent = 0,
                                          ![i].stations = stations,
                                          ![i].metrics =
                                             [m1 EXCEPT !.stations_processed = Len(stations)]]
                             /\ st' = [st EXCEPT ![i] =
                                         [j \in StSlots |->
                                            IF j <= Len(stations)
                                            THEN [StInit EXCEPT !.pc = "queued"]
                                            ELSE StInit]]
    /\ UNCHANGED <<stationRows, recordRows, sampleRows, syncRows, run, results, resp>>

----------------------------------------------------------------------------
(* StationProcessor.process: one task of the inner pool per station *)

StationRunning ==
    {"download", "parse", "station", "stationWrite", "record", "recordWrite", "samples"}

\* the task returns its StationProcessResult; as_completed hands it to the
\* results list of _process_stations_parallel
StationReturn(i, j, rec) ==
    /\ st' = [st EXCEPT ![i][j] = [rec EXCEPT !.pc = "done"]]
    /\ ev' = [ev EXCEPT ![i].order = Append(@, j)]

\* a worker of the event's inner pool takes the next queued station task
StationStart(i, j) ==
    /\ UNCHANGED <<scVars, call, plot>>
    /\ st[i][j].pc = "queued"
    /\ Cardinality({ k \in StSlots : st[i][k].pc \in StationRunning }) < run.ps
    /\ \A k \in StSlots : k < j => st[i][k].pc # "queued"
    /\ st' = [st EXCEPT ![i][j].pc = "download"]
    /\ UNCHANGED <<stationRows, recordRows, sampleRows, syncRows, run, ev,
                   results, resp>>

\* the adapter of the station session sends the GET again after a
\* connection failure or a timeout, while retries are left
ResendGet(i, j) ==
    /\ UNCHANGED <<scVars, call, plot>>
    /\ st[i][j].pc = "download"
    /\ st[i][j].resent < GetRetries
    /\ st' = [st EXCEPT ![i][j].resent = @ + 1]
    /\ UNCHANGED <<stationRows, recordRows, sampleRows, syncRows, run, ev,
                   results, resp>>

\* Paso 1: FileDownloader.download
Download(i, j) ==
    /\ UNCHANGED <<scVars, call, plot>>
    /\ st[i][j].pc = "download"
    /\ LET t == [st[i][j] EXCEPT !.steps = 1, !.gets = @ + 1, !.resent = 0]
       IN \E downloaded \in BOOLEAN :
            IF downloaded
            THEN /\ st' = [st EXCEPT ![i][j] = [t EXCEPT !.pc = "parse"]]
                 /\ UNCHANGED ev
            ELSE \* RequestException: download returns None
                 StationReturn(i, j, [t EXCEPT !.status = FILE_NOT_FOUND, !.failed = 1])
    /\ UNCHANGED <<stationRows, recordRows, sampleRows, syncRows, run, results, resp>>

\* Paso 2: AccelerationFileParser.parse of the downloaded text
Parse(i, j) ==
    /\ UNCHANGED <<scVars, call, plot>>
    /\ st[i][j].pc = "parse"
    /\ LET t == [st[i][j] EXCEPT !.steps = 2]
       IN \E parsed \in BOOLEAN :
            IF parsed
            THEN /\ st' = [st EXCEPT ![i][j] = [t EXCEPT !.pc = "station"]]
                 /\ UNCHANGED ev
            ELSE StationReturn(i, j, [t EXCEPT !.status = PARSE_ERROR, !.failed = 2])
    /\ UNCHANGED <<stationRows, recordRows, sampleRows, syncRows, run, results, resp>>

\* Paso 3, DatabaseBatch.get_or_create_station: cache look-up, then the SELECT
\* of insert_or_update_seismic_station
StationLookup(i, j) ==
    /\ UNCHANGED <<scVars, call, plot>>
    /\ st[i][j].pc = "station"
    /\ LET t == [st[i][j] EXCEPT !.steps = 3]
           code == ev[i].stations[j]
       IN IF ev[i].cache[code] # 0
          THEN /\ st' = [st EXCEPT ![i][j] =
                           [t EXCEPT !.pc = "record", !.sid = ev[i].cache[code]]]
               /\ UNCHANGED ev
          ELSE \E ok \in BOOLEAN :
                 IF ok
                 THEN /\ st' = [st EXCEPT ![i][j] =
                                  [t EXCEPT !.pc = "stationWrite",
                                            !.sel = SelectStationId(code)]]
                      /\ UNCHANGED ev
                 ELSE StationReturn(i, j,
                        [t EXCEPT !.status = DB_STATION_SAVE_ERROR, !.failed = 3,
                                  !.fault = TRUE])
    /\ UNCHANGED <<stationRows, recordRows, sampleRows, syncRows, run, results, resp>>

\* insert_or_update_seismic_station: UPDATE of the row found, or INSERT, and commit
StationWrite(i, j) ==
    /\ UNCHANGED <<scVars, call, plot>>
    /\ st[i][j].pc = "stationWrite"
    /\ LET t == st[i][j]
           code == ev[i].stations[j]
           id == IF t.sel # 0 THEN t.sel ELSE InsertStationId(code)
       IN \E ok \in BOOLEAN :
            IF ok /\ id # 0
            THEN /\ stationRows' = stationRows \cup {[id |-> id, code |-> code]}
                 /\ st' = [st EXCEPT ![i][j] = [t EXCEPT !.pc = "record", !.sid = id, !.sel = 0]]
                 /\ ev' = [ev EXCEPT ![i].cache[code] = id]
                 /\ run' = [run EXCEPT !.writes = @ + 1]
            ELSE /\ StationReturn(i, j,
                       [t EXCEPT !.status = DB_STATION_SAVE_ERROR, !.failed = 3,
                                 !.sel = 0, !.fault = ~ok])
                 /\ UNCHANGED <<stationRows, run>>
    /\ UNCHANGED <<recordRows, sampleRows, syncRows, results, resp>>

\* DatabaseBatch.save_acceleration_record: the SELECTs of
\* insert_seismic_acceleration_record
RecordLookup(i, j) ==
    /\ UNCHANGED <<scVars, call, plot>>
    /\ st[i][j].pc = "record"
    /\ LET t == [st[i][j] EXCEPT !.steps = 4]
       IN \E ok \in BOOLEAN :
            IF ok
            THEN /\ st' = [st EXCEPT ![i][j] =
                             [t EXCEPT !.pc = "recordWrite",
                                       !.sel = SelectRecordId(ev[i].event_id, t.sid)]]
                 /\ UNCHANGED ev
            ELSE StationReturn(i, j,
                   [t EXCEPT !.status = DB_RECORD_SAVE_ERROR, !.failed = 4,
                             !.fault = TRUE])
    /\ UNCHANGED <<stationRows, recordRows, sampleRows, syncRows, run, results, resp>>

\* insert_seismic_acceleration_record: UPDATE of the row found, or INSERT, and commit
RecordWrite(i, j) ==
    /\ UNCHANGED <<scVars, call, plot>>
    /\ st[i][j].pc = "recordWrite"
    /\ LET t == st[i][j]
           id == IF t.sel # 0 THEN t.sel
                 ELSE InsertRecordId(ev[i].event_id, t.sid)
       IN \E ok \in BOOLEAN :
            IF ok /\ id # 0
            THEN /\ recordRows' = recordRows \cup
                       {[id |-> id, event_id |-> ev[i].event_id, station_id |-> t.sid]}
                 /\ st' = [st EXCEPT ![i][j] = [t EXCEPT !.pc = "samples", !.rid = id, !.sel = 0]]
                 /\ run' = [run EXCEPT !.writes = @ + 1]
                 /\ UNCHANGED ev
            ELSE /\ StationReturn(i, j,
                       [t EXCEPT !.status = DB_RECORD_SAVE_ERROR, !.failed = 4,
                                 !.sel = 0, !.fault = ~ok])
                 /\ UNCHANGED <<recordRows, run>>
    /\ UNCHANGED <<stationRows, sampleRows, syncRows, results, resp>>

\* insert_acceleration_samples: False for an empty list and when the
\* transaction raised (rolled back), True when the samples were replaced
insert_acceleration_samples(n, ok) == n > 0 /\ ok

\* DatabaseBatch.save_samples: the value insert_acceleration_samples returns is
\* dropped; only an exception escaping it gives False, and it catches its own
save_samples(inserted, raised) == ~raised

\* Paso 3 (end): save_samples -> insert_acceleration_samples, and the result
SaveSamples(i, j) ==
    /\ UNCHANGED <<scVars, call, plot>>
    /\ st[i][j].pc = "samples"
    /\ \E n \in FileSampleCounts, ok \in BOOLEAN :
         LET t == [st[i][j] EXCEPT !.steps = 5, !.samples_count = n]
             inserted == insert_acceleration_samples(n, ok)
             status == IF save_samples(inserted, FALSE) THEN SUCCESS
                       ELSE DB_SAMPLES_SAVE_ERROR
             \* afterwards the stored samples of the record are the parsed ones
             stored == inserted
                       \/ (n = 0 /\ ~\E r \in sampleRows : r.record_id = t.rid)
         IN /\ sampleRows' = IF inserted THEN ReplaceSamples(sampleRows, t.rid, n)
                             ELSE sampleRows
            /\ run' = [run EXCEPT !.writes = IF inserted THEN @ + 1 ELSE @]
            /\ StationReturn(i, j,
                  [t EXCEPT !.status = status, !.saved = stored,
                            !.fault = n > 0 /\ ~ok,
                            !.failed = IF stored THEN 0 ELSE 5])
    /\ UNCHANGED <<stationRows, recordRows, syncRows, results, resp>>

----------------------------------------------------------------------------
(* IGPDownloader.process_event, after the inner pool *)

\* _update_metrics without the db_error branch
UpdateMetrics_NoDbError(m, i) ==
    LET done == { ev[i].order[k] : k \in 1 .. Len(ev[i].order) }
        with(S) == { j \in done : st[i][j].status \in S }
        ok == with({SUCCESS})
    IN [m EXCEPT
          !.stations_saved_db = @ + Cardinality(ok),
          !.total_samples = @ + SumOver(ok, [j \in ok |-> st[i][j].samples_count]),
          !.stations_file_not_found = @ + Cardinality(with({FILE_NOT_FOUND})),
          !.stations_parse_error = @ + Cardinality(with({PARSE_ERROR}))]

\* _update_metrics over the collected station results
UpdateMetrics(m, i) ==
    LET done == { ev[i].order[k] : k \in 1 .. Len(ev[i].order) }
        with(S) == { j \in done : st[i][j].status \in S }
        ok == with({SUCCESS})
    IN [m EXCEPT
          !.stations_saved_db = @ + Cardinality(ok),
          !.total_samples = @ + SumOver(ok, [j \in ok |-> st[i][j].samples_count]),
          !.stations_file_not_found = @ + Cardinality(with({FILE_NOT_FOUND})),
          !.stations_parse_error = @ + Cardinality(with({PARSE_ERROR})),
          !.stations_db_error = @ + Cardinality(with({DB_STATION_SAVE_ERROR,
                                       DB_RECORD_SAVE_ERROR, DB_SAMPLES_SAVE_ERROR}))]

\* the inner pool has drained: _update_metrics, process_event returns, and
\* _process_single_event builds the EventResult
EventFinish(i) ==
    /\ UNCHANGED <<scVars, call, plot>>
    /\ ev[i].pc = "stations"
    /\ \A j \in 1 .. Len(ev[i].stations) : st[i][j].pc = "done"
    /\ LET m == UpdateMetrics(ev[i].metrics, i)
           ret == m.stations_saved_db > 0
       IN ev' = [ev EXCEPT ![i].pc = "done", ![i].metrics = m, ![i].ret = ret,
                           ![i].result = SingleEventResult(ev[i].event_id, ret, m)]
    /\ UNCHANGED <<stationRows, recordRows, sampleRows, syncRows, run, st,
                   results, resp>>

\* as_completed yields a finished future; future.result(timeout=600) returns
\* its EventResult or raises what the task raised
CollectResult(i) ==
    /\ UNCHANGED <<scVars, call, plot>>
    /\ run.phase = "collect"
    /\ ev[i].pc \in {"done", "raised"}
    /\ ~ev[i].collected
    /\ results' = Append(results,
                     IF ev[i].pc = "done" THEN ev[i].result
                     ELSE EventResult(ev[i].event_id, FALSE, 0, 0, "Exception"))
    /\ ev' = [ev EXCEPT ![i].collected = TRUE]
    /\ UNCHANGED <<stationRows, recordRows, sampleRows, syncRows, run, st, resp>>

\* every future was yielded: the pool shuts down, _calculate_metrics,
\* update_sync_session, _build_success_response
FinishRun ==
    /\ UNCHANGED <<scVars, call, plot>>
    /\ run.phase = "collect"
    /\ \A i \in EvSlots : ev[i].pc # "none" => ev[i].collected
    /\ LET r == CalculateMetrics(run, results)
           status == IF r.failed_events = 0 THEN "completed"
                     ELSE "completed_with_errors"
       IN /\ \E ok \in BOOLEAN :
               syncRows' = update_sync_session(syncRows, r.sync_id, r.processed_events,
                                               r.successful_events, status, ok)
          /\ run' = [r EXCEPT !.phase = "idle"]
          /\ resp' = SuccessResponse(r, status)
    /\ UNCHANGED <<stationRows, recordRows, sampleRows, ev, st, results>>

----------------------------------------------------------------------------
(* SeismicScraper.scrape_events, scrape_catalog and SeismicCatalogHandler *)

\* catalogs a caller names; "xx" is none of usgs / isc / igp
ScCatalogs == {"usgs", "isc", "igp", "xx"}

\* the catalogs argument of scrape_events
CatalogLists == { << "usgs" >>, << "usgs", "igp" >>, << "igp", "xx" >> }

\* len(range(start_year, current_year + 1)) for the start_year values a
\* caller passes; the years themselves are numbered from start_year = 1
YearSpans == {0, 1, 2}

\* the (catalog, year) pairs of sync_catalog and of the results dictionary
ScKeys == { << c, y >> : c \in ScCatalogs, y \in 1 .. 2 }

\* positions in the task list: at most two catalogs times two years
TaskSlots == 1 .. 4

\* key = f"{catalog}_{year}": year is an int, so the text after the last "_"
\* is the year and the text before it the catalog
ResultKey_FirstYear(catalog, year) == << catalog, 1 >>

ResultKey(catalog, year) == << catalog, year >>

\* a SeismicEvent as the source of (catalog, year) returns it; latitude
\* stands for both coordinates: "real" or "null" (None)
SeismicEvent(catalog, year, k) ==
    [event_id |-> << catalog, year, k >>, catalog |-> catalog, rev |-> 1,
     latitude |-> "real"]

\* XExtractor.fetch_events when the request succeeded: the events of the year
fetch_events(catalog, year) ==
    IF catalog = "usgs"
    THEN << SeismicEvent(catalog, year, 1), SeismicEvent(catalog, year, 2),
            SeismicEvent(catalog, year, 3) >>
    ELSE << SeismicEvent(catalog, year, 1) >>

\* an entry of the results dictionary: the dictionary scrape_catalog returned
\* (has_counts), or {"error": ...} alone
Entry(has_counts, processed, inserted, updated, error) ==
    [set |-> TRUE, has_counts |-> has_counts, processed |-> processed,
     inserted |-> inserted, updated |-> updated, error |-> error]

NoEntry ==
    [set |-> FALSE, has_counts |-> FALSE, processed |-> 0, inserted |-> 0,
     updated |-> 0, error |-> FALSE]

\* a submitted scrape_catalog(catalog, year) call
TaskInit(catalog, year) ==
    [catalog |-> catalog, year |-> year, pc |-> "queued", events |-> << >>,
     inserted |-> 0, updated |-> 0, failed |-> FALSE, ret |-> NoEntry,
     collected |-> FALSE]

\* tasks.append((catalog, year)) for catalog in catalogs, for year in years
TaskList(catalogs, nyears) ==
    [k \in 1 .. (Len(catalogs) * nyears) |->
        TaskInit(catalogs[((k - 1) \div nyears) + 1], ((k - 1) % nyears) + 1)]

Scrape0 ==
    [phase |-> "idle", calls |-> 0, mw |-> 0, before |-> {},
     total_processed |-> 0, total_inserted |-> 0, total_updated |-> 0,
     total_errors |-> 0]

\* a row of sync_catalog; error: error_message is not NULL
SyncEntry(status, processed, inserted, updated, error) ==
    [status |-> status, records_processed |-> processed,
     records_inserted |-> inserted, records_updated |-> updated,
     error |-> error]

NoSyncEntry == SyncEntry("none", 0, 0, 0, FALSE)

\* log_sync: INSERT OR REPLACE INTO sync_catalog, committed
log_sync(rows, catalog, year, status, processed, inserted, updated, error) ==
    [rows EXCEPT ![<< catalog, year >>] =
        SyncEntry(status, processed, inserted, updated, error)]

\* bulk_upsert_events, the loop over the batches inside one connection:
\* SELECT the ids that exist, INSERT OR REPLACE the batch, count
RECURSIVE UpsertBatches(_, _, _, _)
UpsertBatches(rows, events, inserted, updated) ==
    IF events = << >>
    THEN [rows |-> rows, inserted |-> inserted, updated |-> updated,
          raised |-> FALSE]
    ELSE LET batch == Take(events, BatchSize)
             rest == SubSeq(events, Len(batch) + 1, Len(events))
             event_ids == { batch[k].event_id : k \in 1 .. Len(batch) }
             existing == { r.event_id : r \in rows } \cap event_ids
             \* executemany INSERT OR REPLACE: the last row of an id stays
             last == { k \in 1 .. Len(batch) :
                         \A m \in (k + 1) .. Len(batch) :
                             batch[m].event_id # batch[k].event_id }
             replaced == { r \in rows : r.event_id \notin event_ids }
                           \cup { batch[k] : k \in last }
         IN UpsertBatches(replaced, rest,
                          inserted + Len(batch) - Cardinality(existing),
                          updated + Cardinality(existing))

bulk_upsert_events_AllInserted(rows, events) ==
    [rows |-> UpsertBatches(rows, events, 0, 0).rows,
     inserted |-> Len(events), updated |-> 0, raised |-> FALSE]

\* bulk_upsert_events: (0, 0) for no events; a NULL latitude or longitude
\* violates NOT NULL, the IntegrityError rolls the whole call back
bulk_upsert_events(rows, events) ==
    IF events = << >>
    THEN [rows |-> rows, inserted |-> 0, updated |-> 0, raised |-> FALSE]
    ELSE IF \E k \in 1 .. Len(events) : events[k].latitude = "null"
         THEN [rows |-> rows, inserted |-> 0, updated |-> 0, raised |-> TRUE]
         ELSE [UpsertBatches(rows, events, 0, 0) EXCEPT !.raised = FALSE]

\* _calculate_totals
calculate_totals(r, res) ==
    LET keys == { k \in ScKeys : res[k].set }
        get(k, n) == IF res[k].has_counts THEN n ELSE 0
    IN [r EXCEPT
          !.total_processed = SumOver(keys, [k \in keys |-> get(k, res[k].processed)]),
          !.total_inserted = SumOver(keys, [k \in keys |-> get(k, res[k].inserted)]),
          !.total_updated = SumOver(keys, [k \in keys |-> get(k, res[k].updated)]),
          !.total_errors = Cardinality({ k \in keys : res[k].error })]

\* scrape_catalog, except branch, for the task as rec leaves it: log_sync
\* "failed", then the zero-count result carrying the error; when that log_sync
\* raises, the exception leaves scrape_catalog
ScrapeFailure(t, rec, rows, logged) ==
    /\ syncCatalog' = IF logged
                      THEN log_sync(rows, rec.catalog, rec.year, "failed",
                                    0, 0, 0, TRUE)
                      ELSE rows
    /\ task' = [task EXCEPT ![t] =
                  [rec EXCEPT !.failed = TRUE,
                              !.pc = IF logged THEN "done" ELSE "raised",
                              !.ret = IF logged THEN Entry(TRUE, 0, 0, 0, TRUE)
                                      ELSE NoEntry]]

\* scrape_events up to the end of the submit comprehension: the task list,
\* ThreadPoolExecutor(max_workers) (ValueError for max_workers < 1), submit
ScrapeEvents ==
    /\ UNCHANGED <<dlVars, call, plot>>
    /\ scrape.phase = "idle"
    /\ scrape.calls = 0
    /\ \E catalogs \in CatalogLists, nyears \in YearSpans,
          mw \in 0 .. MaxScrapeWorkers :
         /\ scrape' = [Scrape0 EXCEPT !.calls = 1, !.mw = mw,
                                      !.before = seismicEvents,
                                      !.phase = IF mw < 1 THEN "raised"
                                                ELSE "collect"]
         /\ task' = IF mw < 1 THEN << >> ELSE TaskList(catalogs, nyears)
    /\ UNCHANGED <<seismicEvents, syncCatalog, scResults>>

ScrapeRunning == { u \in DOMAIN task : task[u].pc = "upsert" }

\* a pool worker takes the oldest queued task; scrape_catalog up to the
\* events in hand: log_sync "running" (outside its try), then the extractor
\* of the catalog (ValueError for an unknown catalog, RequestException when
\* the request fails)
ScrapeTaskStart(t) ==
    /\ UNCHANGED <<dlVars, call, plot>>
    /\ t \in DOMAIN task
    /\ scrape.phase = "collect"
    /\ task[t].pc = "queued"
    /\ \A u \in 1 .. (t - 1) : task[u].pc # "queued"
    /\ Cardinality(ScrapeRunning) < scrape.mw
    /\ \E started \in BOOLEAN, got \in BOOLEAN, logged \in BOOLEAN :
         LET rows == log_sync(syncCatalog, task[t].catalog, task[t].year,
                              "running", 0, 0, 0, FALSE)
         IN IF ~started
            THEN /\ task' = [task EXCEPT ![t].pc = "raised", ![t].failed = TRUE]
                 /\ UNCHANGED syncCatalog
            ELSE IF task[t].catalog \in {"usgs", "isc", "igp"} /\ got
                 THEN /\ syncCatalog' = rows
                      /\ task' = [task EXCEPT
                                    ![t].events = fetch_events(task[t].catalog,
                                                               task[t].year),
                                    ![t].pc = "upsert"]
                 ELSE ScrapeFailure(t, task[t], rows, logged)
    /\ UNCHANGED <<seismicEvents, scResults, scrape>>

\* scrape_catalog from the events on: bulk_upsert_events, committed as a
\* whole or rolled back, then log_sync "completed" and the returned counts
BulkUpsert(t) ==
    /\ UNCHANGED <<dlVars, call, plot>>
    /\ t \in DOMAIN task
    /\ task[t].pc = "upsert"
    /\ \E saved \in BOOLEAN, completed \in BOOLEAN, logged \in BOOLEAN :
         LET up == bulk_upsert_events(seismicEvents, task[t].events)
             rec == [task[t] EXCEPT !.inserted = up.inserted,
                                    !.updated = up.updated]
         IN IF ~saved \/ up.raised
            THEN /\ UNCHANGED seismicEvents
                 /\ ScrapeFailure(t, task[t], syncCatalog, logged)
            ELSE /\ seismicEvents' = up.rows
                 /\ IF completed
                    THEN /\ syncCatalog' = log_sync(syncCatalog, rec.catalog,
                                                    rec.year, "completed",
                                                    Len(rec.events),
                                                    rec.inserted,
                                                    rec.updated, FALSE)
                         /\ task' = [task EXCEPT ![t] =
                                       [rec EXCEPT
                                          !.pc = "done",
                                          !.ret = Entry(TRUE, Len(rec.events),
                                                        rec.inserted,
                                                        rec.updated, FALSE)]]
                    ELSE ScrapeFailure(t, rec, syncCatalog, logged)
    /\ UNCHANGED <<scResults, scrape>>

\* as_completed yields a finished future: results[key] = future.result(), or
\* {"error": str(e)} when the task raised
AsCompleted(t) ==
    /\ UNCHANGED <<dlVars, call, plot>>
    /\ t \in DOMAIN task
    /\ scrape.phase = "collect"
    /\ task[t].pc \in {"done", "raised"}
    /\ ~task[t].collected
    /\ scResults' = [scResults EXCEPT
                       ![ResultKey(task[t].catalog, task[t].year)] =
                           IF task[t].pc = "done" THEN task[t].ret
                           ELSE Entry(FALSE, 0, 0, 0, TRUE)]
    /\ task' = [task EXCEPT ![t].collected = TRUE]
    /\ UNCHANGED <<seismicEvents, syncCatalog, scrape>>

\* every future was yielded: _calculate_totals, return results
ScrapeReturn ==
    /\ UNCHANGED <<dlVars, call, plot>>
    /\ scrape.phase = "collect"
    /\ \A t \in DOMAIN task : task[t].collected
    /\ scrape' = [calculate_totals(scrape, scResults) EXCEPT !.phase = "returned"]
    /\ UNCHANGED <<seismicEvents, syncCatalog, task, scResults>>

----------------------------------------------------------------------------
(* Direct calls of the handler and parser operations *)

NoCall == [op |-> "none"]

\* what a call keeps of the call before it: a bulk_upsert_events of a
\* single event, without its own history
Forget(c) ==
    IF c.op = "bulk_upsert_events" /\ Len(c.events) = 1
    THEN [c EXCEPT !.prev = NoCall]
    ELSE NoCall

\* longest event list of a direct call: one event more than a batch
MaxEvents == BatchSize + 1

RECURSIVE SeqsUpTo(_, _)
\* the lists of at most n elements of S
SeqsUpTo(S, n) ==
    IF n = 0 THEN { << >> }
    ELSE LET shorter == SeqsUpTo(S, n - 1)
         IN shorter \cup { Append(q, x) : q \in shorter, x \in S }

\* events a caller hands to bulk_upsert_events: two ids, the first one in
\* two versions
EventPool ==
    { SeismicEvent("usgs", 1, 1), SeismicEvent("usgs", 1, 2),
      [SeismicEvent("usgs", 1, 1) EXCEPT !.rev = 2] }

\* SeismicCatalogHandler.bulk_upsert_events(events), a call that returns
CallBulkUpsert ==
    /\ UNCHANGED <<dlVars, plot>>
    /\ \E events \in SeqsUpTo(EventPool, MaxEvents) :
         LET up == bulk_upsert_events(seismicEvents, events)
         IN /\ ~up.raised
            /\ seismicEvents' = up.rows
            /\ call' = [op |-> "bulk_upsert_events", events |-> events,
                        before |-> seismicEvents,
                        inserted |-> up.inserted, updated |-> up.updated,
                        prev |-> Forget(call)]
    /\ UNCHANGED <<syncCatalog, task, scResults, scrape>>

\* SeismicDownloader._build_success_response after a run in which n events
\* failed, the k-th with error text k
CallBuildSuccessResponse ==
    /\ UNCHANGED <<dlVars, scVars, plot>>
    /\ \E n \in 0 .. MaxFailed :
         LET r == [Run0 EXCEPT !.total_events = n, !.processed_events = n,
                               !.failed_events = n,
                               !.failed_event_list = [k \in 1 .. n |-> k]]
         IN call' = [op |-> "_build_success_response", failed |-> n,
                     response |-> SuccessResponse(r, "completed_with_errors"),
                     prev |-> NoCall]

\* a record of a source payload: well formed, with an empty latitude or
\* longitude, or with a field that float() rejects
RecordKinds == {"ok", "empty_coord", "non_numeric"}

Payloads == SeqsUpTo(RecordKinds, MaxRecords)

\* what requests.get(...) of an extractor meets: a timeout or connection
\* failure, a non-2xx status, a body that is not the expected format, or a
\* body of records
ApiResponses ==
    { [status |-> x, records |-> << >>] : x \in {"timeout", "http_error", "garbage"} }
      \cup { [status |-> "ok", records |-> p] : p \in Payloads }

\* the loop body of an extractor on one record: "event", "null_event" (an
\* event whose latitude is None), "skip" (continue) or "raise"
\*   usgs: len(coords) < 3 -> continue; no try in the loop, float() raises
\*   isc:  float(c) if c else None; except (ValueError, IndexError) -> continue
\*   igp:  float("") and float("x") are ValueError -> continue
\*   csv:  pd.isnull(latitude) -> continue; except Exception -> continue
MapRecord(source, kind) ==
    CASE kind = "ok" -> "event"
      [] kind = "empty_coord" -> IF source = "isc" THEN "null_event" ELSE "skip"
      [] kind = "non_numeric" -> IF source = "usgs" THEN "raise" ELSE "skip"

RECURSIVE MapRecords(_, _, _, _, _)
\* events.append(event) for the records from position k on, in payload order
MapRecords(source, catalog, year, records, k) ==
    IF k > Len(records) THEN << >>
    ELSE LET m == MapRecord(source, records[k])
             rest == MapRecords(source, catalog, year, records, k + 1)
         IN IF m = "event"
            THEN << SeismicEvent(catalog, year, k) >> \o rest
            ELSE IF m = "null_event"
                 THEN << [SeismicEvent(catalog, year, k)
                             EXCEPT !.latitude = "null"] >> \o rest
                 ELSE rest

\* USGSExtractor / ISCExtractor / IGPExtractor .fetch_events on a response
ExtractorFetch(catalog, year, response) ==
    LET raise == [raised |-> TRUE, events |-> << >>]
    IN IF response.status \in {"timeout", "http_error"} THEN raise
       ELSE IF response.status = "garbage"
            THEN IF catalog = "isc" THEN [raised |-> FALSE, events |-> << >>]
                 ELSE raise
            ELSE IF \E k \in 1 .. Len(response.records) :
                        MapRecord(catalog, response.records[k]) = "raise"
                 THEN raise
                 ELSE [raised |-> FALSE,
                       events |-> MapRecords(catalog, catalog, year,
                                             response.records, 1)]

\* the database operations of scrape_catalog that a fault can make raise
FaultPoints == {"running", "upsert", "completed", "failed"}

\* scrape_catalog(catalog, year) as one call; fetched: the outcome of the
\* extractor (raised for an unknown catalog)
scrape_catalog_Propagating(rows, sync, catalog, year, fetched, faults) ==
    [raised |-> fetched.raised, ret |-> NoEntry, rows |-> rows, sync |-> sync]

scrape_catalog(rows, sync, catalog, year, fetched, faults) ==
    LET running == log_sync(sync, catalog, year, "running", 0, 0, 0, FALSE)
        up == bulk_upsert_events(rows, fetched.events)
        failure(stored) ==
            IF "failed" \in faults
            THEN [raised |-> TRUE, ret |-> NoEntry, rows |-> stored,
                  sync |-> running]
            ELSE [raised |-> FALSE, ret |-> Entry(TRUE, 0, 0, 0, TRUE),
                  rows |-> stored,
                  sync |-> log_sync(running, catalog, year, "failed",
                                    0, 0, 0, TRUE)]
    IN IF "running" \in faults
       THEN [raised |-> TRUE, ret |-> NoEntry, rows |-> rows, sync |-> sync]
       ELSE IF fetched.raised \/ up.raised \/ "upsert" \in faults
            THEN failure(rows)
            ELSE IF "completed" \in faults
                 THEN failure(up.rows)
                 ELSE [raised |-> FALSE,
                       ret |-> Entry(TRUE, Len(fetched.events), up.inserted,
                                     up.updated, FALSE),
                       rows |-> up.rows,
                       sync |-> log_sync(running, catalog, year, "completed",
                                         Len(fetched.events), up.inserted,
                                         up.updated, FALSE)]

\* SeismicScraper.scrape_catalog(catalog, year, ...), called directly
CallScrapeCatalog ==
    /\ UNCHANGED <<dlVars, plot>>
    /\ call.op = "none"
    /\ \E catalog \in ScCatalogs, response \in ApiResponses,
          faults \in SUBSET FaultPoints :
         LET fetched == IF catalog \in {"usgs", "isc", "igp"}
                        THEN ExtractorFetch(catalog, 1, response)
                        ELSE [raised |-> TRUE, events |-> << >>]
             out == scrape_catalog(seismicEvents, syncCatalog, catalog, 1,
                                   fetched, faults)
         IN /\ seismicEvents' = out.rows
            /\ syncCatalog' = out.sync
            /\ call' = [op |-> "scrape_catalog", catalog |-> catalog,
                        year |-> 1, response |-> response, faults |-> faults,
                        fetched |-> fetched, before |-> seismicEvents,
                        raised |-> out.raised, ret |-> out.ret,
                        prev |-> NoCall]
    /\ UNCHANGED <<task, scResults, scrape>>

\* a CSV file: whether pd.read_csv reads it, whether every required column
\* is there, and its rows
CsvFiles ==
    { [readable |-> r, columns |-> c, records |-> p] :
        r \in BOOLEAN, c \in {"all", "no_magType"}, p \in Payloads }

\* CSVExtractor.fetch_events: the ValueError of the column check and any
\* other exception end in the outer except, which returns []
CSVExtractor_fetch_events(catalog, file) ==
    IF ~file.readable \/ file.columns # "all"
    THEN [raised |-> FALSE, events |-> << >>]
    ELSE [raised |-> FALSE,
          events |-> MapRecords("csv", catalog, 1, file.records, 1)]

\* scrape_catalog_from_csv: no sync log; an empty list is a zero-count
\* result without error
scrape_catalog_from_csv(rows, fetched, saved) ==
    LET up == bulk_upsert_events(rows, fetched.events)
    IN IF fetched.raised
       THEN [raised |-> FALSE, ret |-> Entry(TRUE, 0, 0, 0, TRUE), rows |-> rows]
       ELSE IF fetched.events = << >>
            THEN [raised |-> FALSE, ret |-> Entry(TRUE, 0, 0, 0, FALSE),
                  rows |-> rows]
            ELSE IF up.raised \/ ~saved
                 THEN [raised |-> FALSE, ret |-> Entry(TRUE, 0, 0, 0, TRUE),
                       rows |-> rows]
                 ELSE [raised |-> FALSE,
                       ret |-> Entry(TRUE, Len(fetched.events), up.inserted,
                                     up.updated, FALSE),
                       rows |-> up.rows]

\* SeismicScraper.scrape_catalog_from_csv(catalog, csv_path), called directly
CallScrapeCatalogFromCsv ==
    /\ UNCHANGED <<dlVars, plot>>
    /\ call.op = "none"
    /\ \E catalog \in {"usgs", "isc"}, file \in CsvFiles, saved \in BOOLEAN :
         LET fetched == CSVExtractor_fetch_events(catalog, file)
             out == scrape_catalog_from_csv(seismicEvents, fetched, saved)
         IN /\ seismicEvents' = out.rows
            /\ call' = [op |-> "scrape_catalog_from_csv", catalog |-> catalog,
                        file |-> file, saved |-> saved, fetched |-> fetched,
                        before |-> seismicEvents, raised |-> out.raised,
                        ret |-> out.ret, prev |-> NoCall]
    /\ UNCHANGED <<syncCatalog, task, scResults, scrape>>

\* what _extract_acceleration_section and _extract_samples find in a report:
\* whether section "3. REGISTRO" is there; NÚMERO DE MUESTRAS absent, equal
\* to the number of table rows, larger (a table cut short), or no integer;
\* MUESTREO absent or there; PGA absent, with one number or with three; and
\* the number of rows of the sample table
Reports ==
    { [section |-> x, count |-> c, muestreo |-> m, pga |-> g, rows |-> n] :
        x \in BOOLEAN, c \in {"absent", "rows", "more", "text"},
        m \in {"absent", "present"}, g \in {"absent", "one", "three"},
        n \in 0 .. MaxSamples }

\* AccelerationFileParser.parse: None without the section or when the
\* section holds none of the three fields, else the fields found and the
\* samples
parse(report) ==
    IF ~report.section
       \/ (report.count = "absent" /\ report.muestreo = "absent"
             /\ report.pga = "absent")
    THEN [parsed |-> FALSE, samples |-> 0]
    ELSE [parsed |-> TRUE, samples |-> report.rows]

\* save_acceleration_record, the values handed to the insert:
\* int(accel_data.get("NÚMERO DE MUESTRAS", "0")), the first integer of
\* MUESTREO or 100, the PGA numbers found and 0.0 for the others
RecordValues(report) ==
    [num_samples |-> CASE report.count = "absent" -> 0
                       [] report.count = "rows" -> report.rows
                       [] report.count = "more" -> report.rows + 1
                       [] OTHER -> 0,
     sampling_frequency |-> IF report.muestreo = "absent" THEN "100"
                            ELSE "file",
     pga |-> CASE report.pga = "three" -> << "file", "file", "file" >>
               [] report.pga = "one" -> << "file", "0.0", "0.0" >>
               [] OTHER -> << "0.0", "0.0", "0.0" >>]

\* StationProcessor.process from Paso 2 on, for a report already downloaded
\* and a station already stored: parse, save_acceleration_record (None when
\* int() raises or the database does), save_samples
process(records, samples, event_id, station_id, report, record_ok, samples_ok) ==
    LET p == parse(report)
        v == RecordValues(report)
        sel == SelectRecordId(event_id, station_id)
        id == IF sel # 0 THEN sel ELSE InsertRecordId(event_id, station_id)
        row == [id |-> id, event_id |-> event_id, station_id |-> station_id,
                num_samples |-> v.num_samples,
                sampling_frequency |-> v.sampling_frequency, pga |-> v.pga]
        inserted == insert_acceleration_samples(p.samples, samples_ok)
    IN IF ~p.parsed
       THEN [status |-> PARSE_ERROR, records |-> records, samples |-> samples]
       ELSE IF report.count = "text" \/ ~record_ok
            THEN [status |-> DB_RECORD_SAVE_ERROR, records |-> records,
                  samples |-> samples]
            ELSE [status |-> IF save_samples(inserted, FALSE) THEN SUCCESS
                             ELSE DB_SAMPLES_SAVE_ERROR,
                  records |-> { r \in records : r.id # id } \cup {row},
                  samples |-> IF inserted
                              THEN ReplaceSamples(samples, id, p.samples)
                              ELSE samples]

\* StationProcessor.process on a downloaded report, called once
CallProcess ==
    /\ UNCHANGED <<scVars, plot>>
    /\ call.op = "none"
    /\ \E event_id \in {"e1", "e2"}, report \in Reports,
          record_ok \in BOOLEAN, samples_ok \in BOOLEAN :
         LET out == process(recordRows, sampleRows, event_id, 1, report,
                            record_ok, samples_ok)
         IN /\ recordRows' = out.records
            /\ sampleRows' = out.samples
            /\ call' = [op |-> "process", event_id |-> event_id,
                        report |-> report, record_ok |-> record_ok,
                        samples_ok |-> samples_ok, status |-> out.status,
                        records_before |-> recordRows,
                        before |-> sampleRows, prev |-> NoCall]
    /\ UNCHANGED <<stationRows, syncRows, run, ev, st, results, resp>>

\* SeismicRecordsHandler.insert_acceleration_samples(record_id, samples),
\* called directly with a list of n triples
CallInsertSamples ==
    /\ UNCHANGED <<scVars, plot>>
    /\ call.op \in {"none", "insert_acceleration_samples"}
    /\ \E record_id \in {1, 2}, n \in 0 .. MaxSamples, ok \in BOOLEAN :
         LET inserted == insert_acceleration_samples(n, ok)
         IN /\ sampleRows' = IF inserted
                             THEN ReplaceSamples(sampleRows, record_id, n)
                             ELSE sampleRows
            /\ call' = [op |-> "insert_acceleration_samples",
                        record_id |-> record_id, n |-> n, ok |-> ok,
                        returned |-> inserted, before |-> sampleRows,
                        prev |-> NoCall]
    /\ UNCHANGED <<stationRows, recordRows, syncRows, run, ev, st, results, resp>>

----------------------------------------------------------------------------
(* PlotConfig: time-series ticks *)

\* int(round(a / b)) for a >= 0, b > 0: Python rounds a tie to the even
\* neighbour (the float product i * step is exact at the ties met here)
RoundHalfEven(a, b) ==
    LET q == a \div b
        r == a % b
    IN IF 2 * r < b THEN q
       ELSE IF 2 * r > b THEN q + 1
       ELSE IF q % 2 = 0 THEN q ELSE q + 1

RECURSIVE MiddleIndices(_, _, _, _)
\* for i in range(1, n_ticks - 1): idx = int(round(i * step)), appended when
\* it differs from indices[-1] and is before the last position
MiddleIndices(indices, i, len, n_ticks) ==
    IF i > n_ticks - 2 THEN indices
    ELSE LET idx == RoundHalfEven(i * (len - 1), n_ticks - 1)
         IN MiddleIndices(IF idx # indices[Len(indices)] /\ idx < len - 1
                          THEN Append(indices, idx) ELSE indices,
                          i + 1, len, n_ticks)

RECURSIVE Sorted(_)
\* sorted(list(set(...)))
Sorted(S) ==
    IF S = {} THEN << >>
    ELSE LET m == CHOOSE x \in S : \A y \in S : x <= y
         IN << m >> \o Sorted(S \ {m})

\* PlotConfig._set_timeseries_ticks(ax, dates, n_ticks) for a list of len
\* dates; ticks: the positions i whose dates[i] go to ax.set_xticks
set_timeseries_ticks(len, n_ticks) ==
    IF len = 0 THEN [raised |-> FALSE, set |-> FALSE, ticks |-> << >>]
    ELSE IF len = 1 THEN [raised |-> FALSE, set |-> TRUE, ticks |-> << 0 >>]
    ELSE IF len <= n_ticks
    THEN [raised |-> FALSE, set |-> TRUE, ticks |-> [k \in 1 .. len |-> k - 1]]
    ELSE IF n_ticks - 1 = 0
    THEN \* step = (len(dates) - 1) / (n_ticks - 1): ZeroDivisionError
         [raised |-> TRUE, set |-> FALSE, ticks |-> << >>]
    ELSE LET middle == MiddleIndices(<< 0 >>, 1, len, n_ticks)
             indices == IF \E k \in 1 .. Len(middle) : middle[k] = len - 1
                        THEN middle ELSE Append(middle, len - 1)
             thinned == {0, len - 1}
                          \cup { indices[k] : k \in { m \in 2 .. (Len(indices) - 1) :
                                                         m % 2 = 0 } }
         IN [raised |-> FALSE, set |-> TRUE,
             ticks |-> IF Len(indices) > n_ticks
                       THEN Take(Sorted(thinned), n_ticks)
                       ELSE indices]

\* config.apply(ax) of a TIMESERIES PlotConfig(dates, n_xticks)
CallSetTimeseriesTicks ==
    /\ UNCHANGED <<dlVars, scVars, plot>>
    /\ \E len \in 0 .. MaxDates, n_xticks \in 1 .. MaxTicks :
         LET out == set_timeseries_ticks(len, n_xticks)
         IN call' = [op |-> "_set_timeseries_ticks", dates |-> len,
                     n_xticks |-> n_xticks, raised |-> out.raised,
                     set |-> out.set, ticks |-> out.ticks, prev |-> NoCall]

----------------------------------------------------------------------------
(* PlotConfig: the savefig / show hooks and the registry *)

\* the axes of the open figures
Axes == {1, 2}

\* TIMESERIES configurations a caller builds: (len(dates), n_xticks)
HookConfigs ==
    { [dates |-> 5, n_xticks |-> 3], [dates |-> 0, n_xticks |-> 1],
      [dates |-> 2, n_xticks |-> 1] }

NoConfig == [dates |-> 0, n_xticks |-> 0]

NoPlotCall == [op |-> "none"]

\* the class attributes of PlotConfig and pyplot's two functions at import;
\* config: the PlotConfig instance the caller holds
Plot0 ==
    [savefig |-> "savefig", show |-> "show",
     original_savefig |-> "None", original_show |-> "None",
     hooks_installed |-> FALSE, active_configs |-> << >>,
     config |-> NoConfig, last |-> NoPlotCall]

\* PlotConfig._install_hooks
install_hooks(p) ==
    IF p.hooks_installed THEN p
    ELSE [p EXCEPT !.original_savefig = p.savefig,
                   !.original_show = p.show,
                   !.savefig = "savefig_wrapper",
                   !.show = "show_wrapper",
                   !.hooks_installed = TRUE]

\* PlotConfig(plot_type=TIMESERIES, dates, n_xticks)
Construct ==
    /\ UNCHANGED <<dlVars, scVars, call>>
    /\ \E c \in HookConfigs :
         plot' = [install_hooks(plot) EXCEPT
                     !.config = c,
                     !.last = [op |-> "PlotConfig",
                               before_savefig |-> plot.savefig,
                               before_show |-> plot.show]]

\* _active_configs[id(ax)] = {...}: a dict keeps the position of a key it has
register(active, ax, c) ==
    IF \E k \in 1 .. Len(active) : active[k].ax = ax
    THEN [k \in 1 .. Len(active) |->
             IF active[k].ax = ax THEN [ax |-> ax, config |-> c] ELSE active[k]]
    ELSE Append(active, [ax |-> ax, config |-> c])

\* config.register(ax)
Register ==
    /\ UNCHANGED <<dlVars, scVars, call>>
    /\ plot.config # NoConfig
    /\ \E ax \in Axes :
         plot' = [plot EXCEPT
                     !.active_configs = register(plot.active_configs, ax,
                                                 plot.config),
                     !.last = [op |-> "register"]]

\* PlotConfig.clear_registry()
ClearRegistry ==
    /\ UNCHANGED <<dlVars, scVars, call>>
    /\ plot' = [plot EXCEPT !.active_configs = << >>,
                            !.last = [op |-> "clear_registry"]]

\* PlotConfig.uninstall_hooks()
uninstall_hooks(p) ==
    IF p.hooks_installed /\ p.original_savefig # "None"
       /\ p.original_show # "None"
    THEN [p EXCEPT !.savefig = p.original_savefig,
                   !.show = p.original_show,
                   !.hooks_installed = FALSE]
    ELSE p

UninstallHooks ==
    /\ UNCHANGED <<dlVars, scVars, call>>
    /\ plot' = [uninstall_hooks(plot) EXCEPT
                   !.last = [op |-> "uninstall_hooks",
                             was_installed |-> plot.hooks_installed,
                             original_savefig |-> plot.original_savefig,
                             original_show |-> plot.original_show]]

\* _apply_all_configs: the registered axes in dict order, _apply_to_axis on
\* each; the exception of _set_timeseries_ticks ends the loop
apply_all_configs(active) ==
    LET raising == { k \in 1 .. Len(active) :
                       set_timeseries_ticks(active[k].config.dates,
                                            active[k].config.n_xticks).raised }
        stop == IF raising = {} THEN Len(active) + 1
                ELSE CHOOSE k \in raising : \A m \in raising : k <= m
    IN [raised |-> raising # {},
        applied |-> { active[k].ax : k \in 1 .. (stop - 1) }]

\* plt.savefig(...) / plt.show(): the function bound to the name is called;
\* a wrapper applies the configurations, then calls the original
PltCall(name) ==
    /\ UNCHANGED <<dlVars, scVars, call>>
    /\ LET f == IF name = "savefig" THEN plot.savefig ELSE plot.show
           wrapped == f \in {"savefig_wrapper", "show_wrapper"}
           out == IF wrapped THEN apply_all_configs(plot.active_configs)
                  ELSE [raised |-> FALSE, applied |-> {}]
       IN plot' = [plot EXCEPT
                     !.last = [op |-> name,
                               hooked |-> plot.hooks_installed,
                               registered |-> { plot.active_configs[k].ax :
                                                  k \in 1 .. Len(plot.active_configs) },
                               applied |-> out.applied,
                               raised |-> out.raised,
                               originals |-> IF out.raised THEN 0 ELSE 1]]

Savefig == PltCall("savefig")

Show == PltCall("show")

----------------------------------------------------------------------------
(* AccelerationFileParser: the section and the sample table *)

FieldNames == {"NUMERO DE MUESTRAS", "MUESTREO", "PGA"}

\* the characters of a field value: a digit, the decimal point
ValueChars == {"d", "."}

\* a line after the heading "3. REGISTRO": "NAME : value", or the heading
\* of the next numbered section
SectionLines ==
    { [heading |-> FALSE, name |-> f, value |-> v] :
        f \in FieldNames, v \in SeqsUpTo(ValueChars, MaxValueLen) \ { << >> } }
      \cup { [heading |-> TRUE, name |-> "", value |-> << >>] }

\* _SECTION_PATTERN = \d\.\s* searched in a value: the position of the first
\* digit that a point follows, 0 when there is none
FirstDigitPoint(value) ==
    LET hits == { k \in 1 .. (Len(value) - 1) :
                    value[k] = "d" /\ value[k + 1] = "." }
    IN IF hits = {} THEN 0 ELSE CHOOSE k \in hits : \A m \in hits : k <= m

\* where section_text ends: the first line that is a numbered heading or
\* holds a digit followed by a point (Len + 1: at the end of the text)
SectionEnd(lines) ==
    LET stops == { k \in 1 .. Len(lines) :
                     lines[k].heading \/ FirstDigitPoint(lines[k].value) # 0 }
    IN IF stops = {} THEN Len(lines) + 1
       ELSE CHOOSE k \in stops : \A m \in stops : k <= m

\* section_text = content[start_pos:end_pos], line by line: the lines
\* before the end in full, the line of the end up to the digit
SectionText(lines) ==
    LET e == SectionEnd(lines)
    IN [k \in 1 .. (IF e <= Len(lines) /\ ~lines[e].heading THEN e ELSE e - 1) |->
           IF k < e THEN lines[k]
           ELSE [lines[k] EXCEPT
                    !.value = SubSeq(lines[k].value, 1,
                                     FirstDigitPoint(lines[k].value) - 1)]]

\* _extract_acceleration_section: for each field the first line of
\* section_text that names it, group(1).strip() (empty when the text ends
\* right after "NAME : ")
extract_acceleration_section(lines) ==
    LET text == SectionText(lines)
        at(f) == { k \in 1 .. Len(text) : text[k].name = f }
    IN [f \in FieldNames |->
          IF at(f) = {} THEN [found |-> FALSE, value |-> << >>]
          ELSE [found |-> TRUE,
                value |-> text[CHOOSE k \in at(f) : \A m \in at(f) : k <= m].value]]

\* AccelerationFileParser._extract_acceleration_section on the lines that
\* follow the heading
CallExtractSection ==
    /\ UNCHANGED <<dlVars, scVars, plot>>
    /\ call.op = "none"
    /\ \E lines \in SeqsUpTo(SectionLines, MaxFieldLines) :
         call' = [op |-> "_extract_acceleration_section", lines |-> lines,
                  result |-> extract_acceleration_section(lines),
                  prev |-> NoCall]

\* a line of the report body: the "Z N E" header, three numbers, a blank
\* line, fewer than three tokens, three tokens that are not all numbers,
\* three numbers followed by more tokens
LineKinds == {"header", "triple", "blank", "short", "text", "long"}

RECURSIVE ReadSamples(_, _)
\* the loop of _extract_samples from line k on: the positions of the lines
\* appended as samples
ReadSamples(lines, k) ==
    IF k > Len(lines) THEN << >>
    ELSE IF lines[k] = "blank" THEN ReadSamples(lines, k + 1)
    ELSE IF lines[k] \in {"short", "text", "header"} THEN << >>
    ELSE << k >> \o ReadSamples(lines, k + 1)

\* the positions from .. (to - 1) of the lines whose first three tokens
\* are numbers, in order
NumericLines(lines, from, to) ==
    [m \in 1 .. Cardinality({ j \in from .. (to - 1) :
                                lines[j] \in {"triple", "long"} }) |->
        CHOOSE j \in from .. (to - 1) :
            /\ lines[j] \in {"triple", "long"}
            /\ Cardinality({ i \in from .. j :
                               lines[i] \in {"triple", "long"} }) = m]

extract_samples_NoBreak(lines) ==
    LET headers == { k \in 1 .. Len(lines) : lines[k] = "header" }
    IN IF headers = {} THEN << >>
       ELSE NumericLines(lines, (CHOOSE k \in headers :
                                     \A m \in headers : k <= m) + 1,
                         Len(lines) + 1)

\* _extract_samples: [] without a header line, else the lines after the
\* first one
extract_samples(lines) ==
    LET headers == { k \in 1 .. Len(lines) : lines[k] = "header" }
    IN IF headers = {} THEN << >>
       ELSE ReadSamples(lines, (CHOOSE k \in headers :
                                    \A m \in headers : k <= m) + 1)

\* AccelerationFileParser._extract_samples on a report body
CallExtractSamples ==
    /\ UNCHANGED <<dlVars, scVars, plot>>
    /\ call.op = "none"
    /\ \E lines \in SeqsUpTo(LineKinds, MaxLines) :
         call' = [op |-> "_extract_samples", lines |-> lines,
                  samples |-> extract_samples(lines), prev |-> NoCall]

----------------------------------------------------------------------------
(* ISCExtractor.fetch_events: the lines of the response *)

\* a line of response.text: one holding "No events were found.", one
\* holding "EVENTID", one holding "STOP", an empty one, one with fewer than
\* 12 columns, one whose date or numbers do not parse, a well-formed one
IscLineKinds == {"noevents", "eventid", "stop", "blank", "short", "bad", "data"}

RECURSIVE ReadIscLines(_, _, _)
\* the loop over lines from line k on, start_processing = started: the
\* positions of the lines appended to events
ReadIscLines(lines, k, started) ==
    IF k > Len(lines) THEN << >>
    ELSE IF lines[k] = "noevents" THEN << >>
    ELSE IF lines[k] = "eventid" THEN ReadIscLines(lines, k + 1, TRUE)
    ELSE IF lines[k] = "stop" THEN << >>
    ELSE IF ~started \/ lines[k] = "blank" THEN ReadIscLines(lines, k + 1, started)
    ELSE IF lines[k] = "short" THEN ReadIscLines(lines, k + 1, started)
    ELSE IF lines[k] = "bad" THEN ReadIscLines(lines, k + 1, started)
    ELSE << k >> \o ReadIscLines(lines, k + 1, started)

\* the events returned for a response: "return events" at the
\* no-events line gives what was appended before it
isc_fetch_events(lines) ==
    ReadIscLines(lines, 1, FALSE)

\* ISCExtractor.fetch_events on a response that arrived with status 200
CallIscFetchEvents ==
    /\ UNCHANGED <<dlVars, scVars, plot>>
    /\ call.op = "none"
    /\ \E lines \in SeqsUpTo(IscLineKinds, MaxLines) :
         call' = [op |-> "isc_fetch_events", lines |-> lines,
                  events |-> isc_fetch_events(lines), prev |-> NoCall]

----------------------------------------------------------------------------
(* IGPExtractor.fetch_events: the event_id of each element *)

\* an element of response.json(): "codigo" ("" when absent or empty), the
\* second of fecha_utc + hora_utc, and the epicentre
IgpItems ==
    { [codigo |-> c, second |-> t, place |-> p] :
        c \in {"", "c1"}, t \in {1, 2}, p \in {"A", "B"} }

\* event_id = item.get("codigo"), or "IGP_" + event_time.strftime to the
\* second
igp_event_id(item) ==
    IF item.codigo # "" THEN << "codigo", item.codigo >>
    ELSE << "IGP_", item.second >>

\* the SeismicEvent built from the element at index idx
igp_event(item, idx) ==
    [event_id |-> igp_event_id(item), catalog |-> "igp", rev |-> idx,
     latitude |-> "real", second |-> item.second, place |-> item.place]

\* fetch_events: one event per element, in order
igp_fetch_events(data) == [idx \in 1 .. Len(data) |-> igp_event(data[idx], idx)]

\* IGPExtractor.fetch_events on a response, then the bulk_upsert_events of
\* scrape_catalog into an empty store
CallIgpFetchEvents ==
    /\ UNCHANGED <<dlVars, scVars, plot>>
    /\ call.op = "none"
    /\ \E data \in SeqsUpTo(IgpItems, MaxItems) :
         LET events == igp_fetch_events(data)
         IN call' = [op |-> "igp_fetch_events", data |-> data,
                     events |-> events,
                     stored |-> bulk_upsert_events({}, events).rows,
                     prev |-> NoCall]

----------------------------------------------------------------------------
(* bulk_upsert_events batch by batch, on one connection per call *)

\* an event whose latitude is None: NOT NULL fails on its insert
NullEvent ==
    [SeismicEvent("usgs", 1, 3) EXCEPT !.latitude = "null"]

\* n well-formed events with different ids
GoodEvents(n) == [k \in 1 .. n |-> SeismicEvent("usgs", 2, k)]

\* the event lists of the calls: more than one batch, with and without a
\* row that fails in the last batch; a single event that is stored already
\* or new
TxLists ==
    { GoodEvents(BatchSize) \o << NullEvent >>,
      GoodEvents(BatchSize + 1),
      << [SeismicEvent("usgs", 1, 1) EXCEPT !.rev = 2] >>,
      << NullEvent >> }

\* a call of bulk_upsert_events: events, the index of the next batch, the
\* rows as its connection sees them, the store when it was called, and its
\* place in the order of commits (0: not committed)
Tx0(events, store) ==
    [pc |-> "called", events |-> events, next |-> 1, pending |-> store,
     before |-> store, commit_no |-> 0]

\* a task calls bulk_upsert_events: (0, 0) for no events, else
\* _get_connection opens its own connection
TxCall ==
    /\ UNCHANGED <<dlVars, call, plot>>
    /\ Len(task) < MaxScrapeWorkers
    /\ \E events \in TxLists :
         task' = Append(task, Tx0(events, seismicEvents))
    /\ UNCHANGED <<seismicEvents, syncCatalog, scResults, scrape>>

\* the rows other connections see after a batch of an open transaction
committed_rows_Autocommit(store, pending) == pending

committed_rows(store, pending) == store

\* one iteration of the batch loop: SELECT existing, executemany INSERT OR
\* REPLACE inside the transaction the first insert opened; an exception
\* (NOT NULL, database is locked by the transaction of another connection,
\* I/O) leaves the with-block: rollback, raise
TxBatch(t) ==
    /\ UNCHANGED <<dlVars, call, plot>>
    /\ t \in DOMAIN task
    /\ task[t].pc \in {"called", "open"}
    /\ task[t].next <= Len(task[t].events)
    /\ LET tx == task[t]
           batch == SubSeq(tx.events, tx.next,
                           IF tx.next + BatchSize - 1 <= Len(tx.events)
                           THEN tx.next + BatchSize - 1 ELSE Len(tx.events))
           locked == \E u \in DOMAIN task : u # t /\ task[u].pc = "open"
           base == IF tx.pc = "open" THEN tx.pending ELSE seismicEvents
           rows == UpsertBatches(base, batch, 0, 0).rows
       IN \E fails \in BOOLEAN :
            IF locked
            THEN /\ fails
                 /\ task' = [task EXCEPT ![t].pc = "raised"]
                 /\ UNCHANGED seismicEvents
            ELSE IF fails \/ \E k \in 1 .. Len(batch) : batch[k].latitude = "null"
                 THEN /\ task' = [task EXCEPT ![t].pc = "raised"]
                      /\ UNCHANGED seismicEvents
                 ELSE /\ task' = [task EXCEPT ![t].pc = "open",
                                              ![t].pending = rows,
                                              ![t].next = tx.next + Len(batch)]
                      /\ seismicEvents' = committed_rows(seismicEvents, rows)
    /\ UNCHANGED <<syncCatalog, scResults, scrape>>

\* the with-block ends: conn.commit(), or rollback and raise when the
\* commit fails
TxCommit(t) ==
    /\ UNCHANGED <<dlVars, call, plot>>
    /\ t \in DOMAIN task
    /\ task[t].pc = "open"
    /\ task[t].next > Len(task[t].events)
    /\ \E ok \in BOOLEAN :
         IF ok
         THEN /\ seismicEvents' = task[t].pending
              /\ task' = [task EXCEPT
                            ![t].pc = "done",
                            ![t].commit_no =
                               1 + Cardinality({ u \in DOMAIN task :
                                                   task[u].commit_no > 0 })]
         ELSE /\ UNCHANGED seismicEvents
              /\ task' = [task EXCEPT ![t].pc = "raised"]
    /\ UNCHANGED <<syncCatalog, scResults, scrape>>

----------------------------------------------------------------------------
(* process_events called again and again *)

EventIds == { EventTable[k].event_id : k \in 1 .. Len(EventTable) }

\* one whole process_events(catalog, num_events) call, as far as the next
\* selection can see it: the events selected, and an acceleration record
\* (with its station) for each selected event that has a station file;
\* the events in dead have none, every download of theirs fails. The first
\* call fixes the arguments and the dead events, later calls repeat them;
\* round is the parity of the number of calls.
RunProcessEvents ==
    /\ UNCHANGED <<scVars, plot>>
    /\ \E catalog \in Catalogs, num_events \in 1 .. MaxLimit,
          dead \in SUBSET EventIds :
         /\ call.op = "process_events" =>
               /\ catalog = call.catalog
               /\ num_events = call.num_events
               /\ dead = call.dead
         /\ LET rows == get_events_without_records(catalog, num_events)
                selected == { rows[k].event_id : k \in 1 .. Len(rows) }
                saved == SelectSeq(rows, LAMBDA e : e.event_id \notin dead)
                known == { r \in stationRows : r.code = "A" }
                sid == IF known = {} THEN Cardinality(stationRows) + 1
                       ELSE (CHOOSE r \in known : TRUE).id
                before == IF call.op = "process_events" THEN call.attempted
                          ELSE {}
            IN /\ recordRows' = recordRows \cup
                     { [id |-> Cardinality(recordRows) + k,
                        event_id |-> saved[k].event_id, station_id |-> sid] :
                       k \in 1 .. Len(saved) }
               /\ stationRows' = IF saved # << >> /\ known = {}
                                 THEN stationRows \cup {[id |-> sid, code |-> "A"]}
                                 ELSE stationRows
               /\ call' = [op |-> "process_events", catalog |-> catalog,
                           num_events |-> num_events, dead |-> dead,
                           selected |-> selected,
                           attempted |-> before \cup selected,
                           round |-> IF call.op = "process_events"
                                     THEN 1 - call.round ELSE 1,
                           prev |-> NoCall]
    /\ UNCHANGED <<sampleRows, syncRows, run, ev, st, results, resp>>

----------------------------------------------------------------------------

\* the store a call starts from: empty, or as left by an earlier call that
\* saved station A (3 samples) of event e1
InitialStores ==
    { [stations |-> {}, records |-> {}, samples |-> {}, syncs |-> << >>],
      [stations |-> {[id |-> 1, code |-> "A"]},
       records |-> {[id |-> 1, event_id |-> "e1", station_id |-> 1]},
       samples |-> {[record_id |-> 1, sample_index |-> k, triple |-> k + 1] :
                       k \in 0 .. 2},
       syncs |-> << [status |-> "completed_with_errors", processed |-> 1,
                     inserted |-> 0, updates |-> 1] >>] }

\* seismic_events before scrape_events is called: empty, or as left by an
\* earlier harvest (rev 0: the row as stored then)
InitialEvents ==
    { {},
      { [event_id |-> <<"usgs", 1, 1>>, catalog |-> "usgs", rev |-> 0,
         latitude |-> "real"],
        [event_id |-> <<"isc", 1, 1>>, catalog |-> "isc", rev |-> 0,
         latitude |-> "real"] } }

\* a SeismicDownloader just built, over the store s
DownloaderInit(s) ==
    /\ stationRows = s.stations
    /\ recordRows = s.records
    /\ sampleRows = s.samples
    /\ syncRows = s.syncs
    /\ run = Run0
    /\ ev = [i \in EvSlots |-> EvInit]
    /\ st = [i \in EvSlots |-> [j \in StSlots |-> StInit]]
    /\ results = << >>
    /\ resp = NoResp

\* a SeismicScraper just built, over the seismic_events rows given
ScraperInit(events) ==
    /\ seismicEvents = events
    /\ syncCatalog = [k \in ScKeys |-> NoSyncEntry]
    /\ task = << >>
    /\ scResults = [k \in ScKeys |-> NoEntry]
    /\ scrape = Scrape0

Init ==
    /\ \E s \in InitialStores : DownloaderInit(s)
    /\ ScraperInit({})
    /\ call = NoCall
    /\ plot = Plot0

Next ==
    \/ ProcessCatalog
    \/ ProcessEvents
    \/ SubmitEvent
    \/ \E i \in EvSlots : EventStart(i)
    \/ \E i \in EvSlots : ResendPost(i)
    \/ \E i \in EvSlots : FetchEventData(i)
    \/ \E i \in EvSlots, j \in StSlots : StationStart(i, j)
    \/ \E i \in EvSlots, j \in StSlots : ResendGet(i, j)
    \/ \E i \in EvSlots, j \in StSlots : Download(i, j)
    \/ \E i \in EvSlots, j \in StSlots : Parse(i, j)
    \/ \E i \in EvSlots, j \in StSlots : StationLookup(i, j)
    \/ \E i \in EvSlots, j \in StSlots : StationWrite(i, j)
    \/ \E i \in EvSlots, j \in StSlots : RecordLookup(i, j)
    \/ \E i \in EvSlots, j \in StSlots : RecordWrite(i, j)
    \/ \E i \in EvSlots, j \in StSlots : SaveSamples(i, j)
    \/ \E i \in EvSlots : EventFinish(i)
    \/ \E i \in EvSlots : CollectResult(i)
    \/ FinishRun

Spec == Init /\ [][Next]_vars

ScrapeNext ==
    \/ ScrapeEvents
    \/ \E t \in TaskSlots : ScrapeTaskStart(t)
    \/ \E t \in TaskSlots : BulkUpsert(t)
    \/ \E t \in TaskSlots : AsCompleted(t)
    \/ ScrapeReturn

ScrapeInit ==
    /\ DownloaderInit(CHOOSE s \in InitialStores : s.stations = {})
    /\ \E events \in InitialEvents : ScraperInit(events)
    /\ call = NoCall
    /\ plot = Plot0

ScrapeSpec == ScrapeInit /\ [][ScrapeNext]_vars

CallNext ==
    \/ CallBulkUpsert
    \/ CallBuildSuccessResponse

\* operations called one after the other on one store
CallSpec == ScrapeInit /\ [][CallNext]_vars

\* acceleration records and samples left by an earlier run
RecordStores ==
    { [stations |-> {[id |-> 1, code |-> "A"]}, records |-> {},
       samples |-> {}, syncs |-> << >>],
      [stations |-> {[id |-> 1, code |-> "A"]},
       records |-> { [id |-> 1, event_id |-> "e1", station_id |-> 1,
                      num_samples |-> 3, sampling_frequency |-> "file",
                      pga |-> << "file", "file", "file" >>],
                     [id |-> 2, event_id |-> "e3", station_id |-> 1,
                      num_samples |-> 2, sampling_frequency |-> "file",
                      pga |-> << "file", "file", "file" >>] },
       samples |-> {[record_id |-> 1, sample_index |-> k, triple |-> k + 1] :
                       k \in 0 .. 2}
                     \cup {[record_id |-> 2, sample_index |-> k,
                            triple |-> k + 1] : k \in 0 .. 1},
       syncs |-> << >>] }

RecordInit ==
    /\ \E s \in RecordStores : DownloaderInit(s)
    /\ ScraperInit({})
    /\ call = NoCall
    /\ plot = Plot0

RecordNext ==
    \/ CallProcess
    \/ CallInsertSamples

\* the persistence of one station report, and direct sample inserts
RecordSpec == RecordInit /\ [][RecordNext]_vars

ParserNext ==
    \/ CallExtractSection
    \/ CallExtractSamples

\* the parser's two extractions applied to a report
ParserSpec == Init /\ [][ParserNext]_vars

IscNext == CallIscFetchEvents

\* the ISC extractor applied to a response text
IscSpec == Init /\ [][IscNext]_vars

IgpNext == CallIgpFetchEvents

\* the IGP extractor applied to a response, and the upsert of its events
IgpSpec == Init /\ [][IgpNext]_vars

TxNext ==
    \/ TxCall
    \/ \E t \in TaskSlots : TxBatch(t)
    \/ \E t \in TaskSlots : TxCommit(t)

\* concurrent bulk_upsert_events calls, each on its own connection
TxSpec == ScrapeInit /\ [][TxNext]_vars

RepeatNext == RunProcessEvents

\* process_events called for ever with the same arguments; every call
\* returns, so the next one is always taken
RepeatSpec == Init /\ [][RepeatNext]_vars /\ WF_vars(RepeatNext)

PlotNext ==
    \/ Construct
    \/ Register
    \/ ClearRegistry
    \/ UninstallHooks
    \/ Savefig
    \/ Show

\* PlotConfig and pyplot used in any order
PlotSpec == Init /\ [][PlotNext]_vars

TicksNext ==
    \/ CallSetTimeseriesTicks

\* ticks computed for the date lists and tick counts of a PlotConfig
TicksSpec == Init /\ [][TicksNext]_vars

HarvestNext ==
    \/ CallScrapeCatalog
    \/ CallScrapeCatalogFromCsv

\* one harvest of one source, called on its own
HarvestSpec == ScrapeInit /\ [][HarvestNext]_vars

\* the outer pool's worker threads run until their task returns, the
\* submitting thread runs until process_catalog returns
FairSpec == Spec /\ WF_vars(Next)

----------------------------------------------------------------------------
(* Properties of the download pipeline *)

\* a call of process_catalog / process_events has returned
Returned == run.runs = 1 /\ run.phase = "idle"

UsedStations(i) == 1 .. Len(ev[i].stations)

SuccessStations(i) == { j \in UsedStations(i) : st[i][j].status = SUCCESS }

SavedStationCount ==
    SumOver(EvSlots, [i \in EvSlots |-> Cardinality(SuccessStations(i))])

SavedSampleCount ==
    SumOver(EvSlots,
        [i \in EvSlots |->
            SumOver(SuccessStations(i),
                    [j \in SuccessStations(i) |-> st[i][j].samples_count])])

SavedEventCount == Cardinality({ i \in EvSlots : SuccessStations(i) # {} })

\* C1: the aggregate process_catalog returns reports total_stations = number
\* of stations that reached SUCCESS over all events, total_samples = number of
\* samples of those stations, successful_events = number of events with at
\* least one station saved.
C1_AggregateReportsSavedWork ==
    resp.kind = "success" =>
        /\ resp.total_stations = SavedStationCount
        /\ resp.total_samples = SavedSampleCount
        /\ resp.successful_events = SavedEventCount

\* the scrape_catalog tasks that failed: a step of theirs raised
ScrapeFailed == { t \in DOMAIN task : task[t].failed }

ScrapeSucceeded == DOMAIN task \ ScrapeFailed

TaskKey(t) == ResultKey(task[t].catalog, task[t].year)

TaskFeed(t) == fetch_events(task[t].catalog, task[t].year)

\* the events of task t's source the store did not hold when scrape_events
\* was called
NewEvents(t) ==
    { k \in 1 .. Len(TaskFeed(t)) :
        TaskFeed(t)[k].event_id \notin { r.event_id : r \in scrape.before } }

\* C2: when exactly one of the N (catalog, year) tasks of scrape_events fails,
\* the result holds N entries, exactly one of them (the failed task's) with an
\* error; the totals are the sums over the N-1 successful tasks; every event
\* a successful task fetched is stored as fetched and the rows no task
\* fetched are as they were.
C2_OneFailureIsolated ==
    (scrape.phase = "returned" /\ Cardinality(ScrapeFailed) = 1) =>
        LET keys == { k \in ScKeys : scResults[k].set }
            ok == ScrapeSucceeded
        IN /\ Cardinality(keys) = Len(task)
           /\ Cardinality({ k \in keys : scResults[k].error }) = 1
           /\ scrape.total_errors = 1
           /\ \A t \in ScrapeFailed : scResults[TaskKey(t)].error
           /\ \A t \in ok :
                 /\ scResults[TaskKey(t)].set
                 /\ ~scResults[TaskKey(t)].error
                 /\ scResults[TaskKey(t)].processed = Len(TaskFeed(t))
                 /\ \A k \in 1 .. Len(TaskFeed(t)) : TaskFeed(t)[k] \in seismicEvents
           /\ scrape.total_processed = SumOver(ok, [t \in ok |-> Len(TaskFeed(t))])
           /\ scrape.total_inserted =
                 SumOver(ok, [t \in ok |-> Cardinality(NewEvents(t))])
           /\ scrape.total_updated =
                 SumOver(ok, [t \in ok |-> Len(TaskFeed(t)) - Cardinality(NewEvents(t))])
           /\ \A r \in scrape.before :
                 (\A t \in DOMAIN task :
                     \A k \in 1 .. Len(TaskFeed(t)) :
                         TaskFeed(t)[k].event_id # r.event_id)
                   => r \in seismicEvents

C2_Witness ==
    /\ scrape.phase = "returned"
    /\ Len(task) = 4
    /\ Cardinality(ScrapeFailed) = 1
    /\ scrape.total_errors = 1
    /\ scrape.total_updated = 1
    /\ scrape.total_inserted > 0

\* C11: within one process_event call the breadcrumb POST and each station's
\* file GET go out at most once, whatever the transport outcome: no request
\* is sent again.
C11_NoRequestSentTwice ==
    /\ \A i \in EvSlots : ev[i].posts <= 1 /\ ev[i].resent = 0
    /\ \A i \in EvSlots : \A j \in StSlots :
          st[i][j].gets <= 1 /\ st[i][j].resent = 0

\* the event_ids of a list of events / of a set of rows
IdsOf(events) == { events[k].event_id : k \in 1 .. Len(events) }

StoredIds(rows) == { r.event_id : r \in rows }

\* C12: upserting the same event twice is idempotent: on a store without e
\* the first bulk_upsert_events([e]) reports (1, 0), the second (0, 1); the
\* stored row of e.event_id is e after both calls, and it is the only one.
C12_UpsertTwiceIdempotent ==
    (/\ call.op = "bulk_upsert_events"
     /\ call.prev.op = "bulk_upsert_events"
     /\ Len(call.events) = 1 /\ call.prev.events = call.events
     /\ call.events[1].event_id \notin StoredIds(call.prev.before)) =>
        LET e == call.events[1]
            rowsOf(rows) == { r \in rows : r.event_id = e.event_id }
        IN /\ call.prev.inserted = 1 /\ call.prev.updated = 0
           /\ call.inserted = 0 /\ call.updated = 1
           /\ rowsOf(call.before) = {e}
           /\ rowsOf(seismicEvents) = {e}

C12_Witness ==
    /\ call.op = "bulk_upsert_events"
    /\ call.prev.op = "bulk_upsert_events"
    /\ Len(call.events) = 1 /\ call.prev.events = call.events
    /\ call.events[1].event_id \notin StoredIds(call.prev.before)
    /\ call.inserted = 0 /\ call.updated = 1

\* C13: for any list of events, with or without repeated event_ids and of
\* any length relative to the batch size, bulk_upsert_events reports
\* inserted = number of event_ids absent before the call and present after
\* it, updated = number of input ids already stored before the call.
C13_UpsertCountsAccurate ==
    (call.op = "bulk_upsert_events") =>
        /\ call.inserted =
              Cardinality((IdsOf(call.events) \ StoredIds(call.before))
                            \cap StoredIds(seismicEvents))
        /\ call.updated =
              Cardinality(IdsOf(call.events) \cap StoredIds(call.before))

\* the events of the well-formed records of a payload
WellFormedEvents(catalog, records) ==
    { SeismicEvent(catalog, 1, k) :
        k \in { m \in 1 .. Len(records) : records[m] = "ok" } }

\* C14: loading a CSV that lacks a required column fails fast: no row is
\* mapped, no event of the file is upserted, and the caller gets an error,
\* not an empty successful result.
C14_MissingColumnIsAnError ==
    (/\ call.op = "scrape_catalog_from_csv"
     /\ call.file.readable /\ call.file.columns # "all") =>
        /\ call.fetched.events = << >>
        /\ seismicEvents = call.before
        /\ call.raised \/ call.ret.error

\* C15: one malformed record in a harvest task (database working) is
\* skipped alone: the task does not fail, and the events of all its
\* well-formed records are stored and counted.
C15_MalformedRecordSkippedAlone ==
    LET records == IF call.op = "scrape_catalog" THEN call.response.records
                   ELSE call.file.records
        harvested ==
            \/ /\ call.op = "scrape_catalog"
               /\ call.catalog \in {"usgs", "isc", "igp"}
               /\ call.response.status = "ok"
               /\ call.faults = {}
            \/ /\ call.op = "scrape_catalog_from_csv"
               /\ call.file.readable /\ call.file.columns = "all"
               /\ call.saved
    IN (/\ call.op \in {"scrape_catalog", "scrape_catalog_from_csv"}
        /\ harvested
        /\ Cardinality({ k \in 1 .. Len(records) : records[k] # "ok" }) = 1) =>
           /\ ~call.raised /\ ~call.ret.error
           /\ WellFormedEvents(call.catalog, records) \subseteq seismicEvents
           /\ call.ret.processed =
                 Cardinality(WellFormedEvents(call.catalog, records))

SamplesOf(rows, record_id) == { r \in rows : r.record_id = record_id }

\* C17: for every acceleration record the pipeline stored (database
\* working, a table with at least one triple), the sample_index values of
\* the record are exactly 0 .. num_samples - 1, num_samples being the value
\* on the record, without gap or duplicate, and sample i is the i-th triple
\* of the table.
C17_SampleIndexesMatchRecord ==
    (/\ call.op = "process" /\ call.status = SUCCESS /\ call.samples_ok
     /\ call.report.rows > 0) =>
        \A r \in recordRows :
            LET rows == SamplesOf(sampleRows, r.id)
            IN /\ { x.sample_index : x \in rows } = 0 .. (r.num_samples - 1)
               /\ Cardinality(rows) = r.num_samples
               /\ \A x \in rows : x.triple = x.sample_index + 1

\* C18: insert_acceleration_samples(record_id, S) (database working) is a
\* full replace for every S, the empty list included: afterwards the
\* samples of record_id are exactly S, indexed from 0 in order, and the
\* samples of the other records are unchanged.
C18_SamplesFullyReplaced ==
    (call.op = "insert_acceleration_samples" /\ call.ok) =>
        /\ SamplesOf(sampleRows, call.record_id) =
              { [record_id |-> call.record_id, sample_index |-> k - 1,
                 triple |-> k] : k \in 1 .. call.n }
        /\ \A r \in {1, 2} \ {call.record_id} :
              SamplesOf(sampleRows, r) = SamplesOf(call.before, r)

\* C20: a report whose section lacks the sample count, the sampling rate
\* or the PGA line is a parse failure (PARSE_ERROR) and stores no record;
\* a PGA line with fewer than three numbers is accepted, the missing
\* values being 0.0.
C20_ThreeFieldsRequired ==
    (call.op = "process" /\ call.report.section) =>
        /\ ("absent" \in {call.report.count, call.report.muestreo,
                           call.report.pga}) =>
              (call.status = PARSE_ERROR /\ recordRows = call.records_before)
        /\ (/\ call.report.pga = "one" /\ call.report.count = "rows"
            /\ call.report.muestreo = "present" /\ call.record_ok) =>
              \E r \in recordRows :
                  /\ r.event_id = call.event_id
                  /\ r.pga = << "file", "0.0", "0.0" >>

\* C19: every return path of process_events / process_catalog (success,
\* unsupported catalog, session-open failure, critical error, no pending
\* events) yields a result with the event count and an error list of at
\* most 10 strings, the first failures of the run.
C19_EveryResultHasCountsAndErrors ==
    Returned =>
        /\ {"total_events", "errors"} \subseteq DOMAIN resp
        /\ Len(resp.errors) <= 10
        /\ resp.errors = Take(run.failed_event_list, 10)

\* the error list of a success response is the first 10 failures, in order
FirstTenErrors ==
    call.op = "_build_success_response" =>
        /\ Len(call.response.errors) = Min(call.failed, 10)
        /\ \A k \in 1 .. Len(call.response.errors) :
              call.response.errors[k] = k

\* C22: for every date list and n_xticks >= 1, _set_timeseries_ticks ends
\* without error; for a non-empty list the ticks include the first and the
\* last date, are increasing positions without duplicates, and number at
\* most max(n_xticks, 2) (all dates when len(dates) <= n_xticks); for an
\* empty list nothing is set.
C22_TicksWellFormed ==
    call.op = "_set_timeseries_ticks" =>
        LET t == call.ticks
        IN /\ ~call.raised
           /\ call.dates = 0 => ~call.set
           /\ call.dates > 0 =>
                 /\ call.set
                 /\ t # << >> /\ t[1] = 0 /\ t[Len(t)] = call.dates - 1
                 /\ \A k \in 1 .. (Len(t) - 1) : t[k] < t[k + 1]
                 /\ Len(t) <= (IF call.n_xticks > 2 THEN call.n_xticks ELSE 2)
                 /\ call.dates <= call.n_xticks => Len(t) = call.dates

\* C21: in any sequence of PlotConfig(...), register, clear_registry,
\* uninstall_hooks, savefig and show: a savefig / show call applies the
\* configuration of an axis exactly when the hooks are installed and the
\* axis is registered, and calls the original function exactly once;
\* uninstall_hooks puts back the functions that were there before the
\* installation; a PlotConfig built afterwards installs the hooks again.
C21_HooksApplyAndRestore ==
    /\ plot.last.op \in {"savefig", "show"} =>
          /\ \A ax \in Axes :
                ax \in plot.last.applied <=>
                    (plot.last.hooked /\ ax \in plot.last.registered)
          /\ plot.last.originals = 1
    /\ (plot.last.op = "uninstall_hooks" /\ plot.last.was_installed) =>
          /\ ~plot.hooks_installed
          /\ plot.savefig = "savefig" /\ plot.show = "show"
    /\ plot.last.op = "PlotConfig" =>
          /\ plot.hooks_installed
          /\ plot.savefig = "savefig_wrapper" /\ plot.show = "show_wrapper"
          /\ plot.original_savefig = "savefig" /\ plot.original_show = "show"

\* C23: the section runs from its heading to the next numbered heading or
\* to the end of the text, and every field line between the two is seen in
\* full: the value extracted for a field is the whole value of its first
\* line, also when the value holds a decimal number.
C23_FieldValuesSeenInFull ==
    call.op = "_extract_acceleration_section" =>
        LET lines == call.lines
            headings == { k \in 1 .. Len(lines) : lines[k].heading }
            last == IF headings = {} THEN Len(lines)
                    ELSE (CHOOSE k \in headings : \A m \in headings : k <= m) - 1
        IN \A f \in FieldNames :
              LET at == { k \in 1 .. last : lines[k].name = f }
              IN IF at = {} THEN ~call.result[f].found
                 ELSE /\ call.result[f].found
                      /\ call.result[f].value =
                            lines[CHOOSE k \in at : \A m \in at : k <= m].value

\* the lines after the first header, and the first line among them that
\* ends the table
AfterHeader(lines) ==
    LET headers == { k \in 1 .. Len(lines) : lines[k] = "header" }
    IN IF headers = {} THEN Len(lines) + 1
       ELSE (CHOOSE k \in headers : \A m \in headers : k <= m) + 1

FirstOf(lines, from, kinds) ==
    LET S == { k \in from .. Len(lines) : lines[k] \in kinds }
    IN IF S = {} THEN Len(lines) + 1 ELSE CHOOSE k \in S : \A m \in S : k <= m

\* C24 as stated: the samples are the triples after the first header up to
\* the first line that is not numeric or has fewer than three tokens, a
\* blank line included.
C24_AnyShortLineTerminates ==
    call.op = "_extract_samples" =>
        call.samples =
            NumericLines(call.lines, AfterHeader(call.lines),
                           FirstOf(call.lines, AfterHeader(call.lines),
                                   {"blank", "short", "text", "header"}))

\* C24: the samples are the numeric triples of the lines after the first
\* header, in file order; blank lines are skipped, and the first non-blank
\* line that is non-numeric or has fewer than three tokens ends the table:
\* nothing after it is read; without a header the list is empty.
C24_SamplesUpToTerminator ==
    call.op = "_extract_samples" =>
        call.samples =
            NumericLines(call.lines, AfterHeader(call.lines),
                           FirstOf(call.lines, AfterHeader(call.lines),
                                   {"short", "text", "header"}))

C24_Witness ==
    /\ call.op = "_extract_samples"
    /\ call.lines = << "header", "blank", "triple", "text", "triple" >>
    /\ call.samples = << 3 >>

\* C25: events come only from well-formed lines after the EVENTID line and
\* before the STOP line; a malformed line between the two does not affect
\* the lines after it; a response containing "No events were found."
\* yields no event.
C25_SentinelDriven ==
    call.op = "isc_fetch_events" =>
        LET lines == call.lines
            start == FirstOf(lines, 1, {"eventid"})
            stop == FirstOf(lines, 1, {"stop"})
            between == { k \in 1 .. Len(lines) :
                           lines[k] = "data" /\ start < k /\ k < stop }
            got == { call.events[i] : i \in 1 .. Len(call.events) }
        IN /\ \A i, j \in 1 .. Len(call.events) :
                 i < j => call.events[i] < call.events[j]
           /\ IF \E k \in 1 .. Len(lines) : lines[k] = "noevents"
              THEN got = {}
              ELSE got = between

\* the station tasks of event i that a worker of its inner pool executes
RunningStations(i) == { j \in StSlots : st[i][j].pc \in StationRunning }

\* at most max_workers event tasks and, per event, at most
\* parallel_stations station tasks execute; the station tasks of an event
\* exist only inside its event task, between the creation of the inner pool
\* and its shutdown
PoolsBounded ==
    /\ Cardinality(RunningEvents) <= run.mw
    /\ \A i \in EvSlots :
          /\ Cardinality(RunningStations(i)) <= run.ps
          /\ (\E j \in StSlots : st[i][j].pc \in StationRunning \cup {"queued"})
                => ev[i].pc = "stations"
          /\ ev[i].pc \in {"done", "raised"} =>
                \A j \in StSlots : st[i][j].pc \in {"idle", "done"}

\* every worker of the outer pool is held by a task whose request never
\* completes
AllWorkersStuck ==
    /\ run.mw >= 1
    /\ Cardinality({ k \in EvSlots : ev[k].pc = "stuck" }) >= run.mw

\* no submitted task waits in the queue of its pool
NoEventWaits == \A i \in EvSlots : ev[i].pc # "queued"

NoStationWaits == \A i \in EvSlots, j \in StSlots : st[i][j].pc # "queued"

Incomplete(k) == run.events[k] = NoEventId \/ run.times[k] = "missing"

\* C27: every candidate yields exactly one EventResult: one that lacks
\* event_id or event_time is not submitted and yields a failed result
\* "Datos de evento incompletos", every other one is submitted as one task;
\* a successful response has processed_events = total_events and
\* successful_events + failed_events = processed_events.
C27_OneResultPerCandidate ==
    /\ \A k \in 1 .. run.sub :
          IF Incomplete(k) THEN ev[k].pc = "none" ELSE ev[k].pc # "none"
    /\ run.phase = "collect" =>
          Cardinality({ n \in 1 .. Len(results) :
                          results[n].error = "Datos de evento incompletos" })
            = Cardinality({ k \in 1 .. run.sub : Incomplete(k) })
    /\ (Returned /\ resp.kind = "success") =>
          /\ resp.processed_events = resp.total_events
          /\ resp.successful_events + resp.failed_events = resp.processed_events

\* C28: two different elements of one IGP response that both lack an
\* identifier get different synthesized event_ids, and both are stored
\* when the batch is upserted.
C28_SynthesizedIdsUnique ==
    call.op = "igp_fetch_events" =>
        \A i, j \in 1 .. Len(call.data) :
            (/\ i < j
             /\ call.data[i] # call.data[j]
             /\ call.data[i].codigo = "" /\ call.data[j].codigo = "")
               => /\ call.events[i].event_id # call.events[j].event_id
                  /\ call.events[i] \in call.stored
                  /\ call.events[j] \in call.stored

RECURSIVE Replay(_, _)
\* the store after the commits numbered k and later, applied in order to
\* rows
Replay(rows, k) ==
    IF \A u \in DOMAIN task : task[u].commit_no # k THEN rows
    ELSE LET u == CHOOSE v \in DOMAIN task : task[v].commit_no = k
         IN Replay(UpsertBatches(rows, task[u].events, 0, 0).rows, k + 1)

\* C29: a bulk_upsert_events call that raised left nothing stored, also
\* when it failed after earlier batches and while other calls commit on
\* their own connections: the store is the initial one with the committed
\* calls applied, and equals the store before the call when no other call
\* committed.
C29_AllOrNothing ==
    \A t \in DOMAIN task :
        task[t].pc = "raised" =>
            /\ task[t].commit_no = 0
            /\ seismicEvents = Replay(task[1].before, 1)
            /\ (\A u \in DOMAIN task : task[u].commit_no = 0) =>
                  seismicEvents = task[1].before

C29_Witness ==
    \E t, u \in DOMAIN task :
        /\ task[t].pc = "raised" /\ task[t].next > 1
        /\ task[u].commit_no > 0

\* the event e of the catalog of the calls has no acceleration record
PendingEvent(e) ==
    /\ call.op = "process_events"
    /\ \E k \in 1 .. Len(EventTable) :
          EventTable[k].event_id = e /\ EventTable[k].catalog = call.catalog
    /\ e \notin { r.event_id : r \in recordRows }

\* C30: under repeated process_events calls every event of the catalog
\* that has no acceleration record is eventually selected and attempted,
\* also when events that fail for ever fill a whole selection.
C30_EveryPendingEventAttempted ==
    \A e \in EventIds :
        PendingEvent(e) ~> (call.op = "process_events" /\ e \in call.attempted)

\* C3: a run with an event task that never completes still terminates:
\* whenever a task is stuck, process_catalog eventually returns.
C3_StuckTaskRunReturns ==
    (\E i \in EvSlots : ev[i].pc = "stuck") ~> Returned

\* the station task (i, j) is past get_or_create_station
PastStationUpsert(i, j) ==
    \/ st[i][j].pc \in {"record", "recordWrite", "samples"}
    \/ st[i][j].pc = "done" /\ st[i][j].steps >= 3

\* the station task (i, j) is past save_acceleration_record
PastRecordUpsert(i, j) ==
    \/ st[i][j].pc = "samples"
    \/ st[i][j].pc = "done" /\ st[i][j].steps >= 4

\* C4: under any interleaving of the station writers the store holds at most
\* one station row per code and one acceleration record per
\* (event_id, station_id), and every writer for a key ends up with the id of
\* that single row (writers whose transaction raised for an outside reason,
\* st.fault, set aside).
C4_OneRowPerKeyWritersAgree ==
    /\ \A r1, r2 \in stationRows : r1.code = r2.code => r1 = r2
    /\ \A r1, r2 \in recordRows :
          (r1.event_id = r2.event_id /\ r1.station_id = r2.station_id) => r1 = r2
    /\ \A i \in EvSlots : \A j \in UsedStations(i) :
          /\ (PastStationUpsert(i, j) /\ ~(st[i][j].failed = 3 /\ st[i][j].fault))
                => (st[i][j].sid # 0
                    /\ st[i][j].sid = SelectStationId(ev[i].stations[j]))
          /\ (PastRecordUpsert(i, j) /\ ~(st[i][j].failed = 4 /\ st[i][j].fault))
                => (st[i][j].rid # 0
                    /\ st[i][j].rid = SelectRecordId(ev[i].event_id, st[i][j].sid))

\* no candidate of the run failed: every one was submitted and its
\* process_event returned true
NoEventFailed ==
    \A k \in 1 .. Len(run.events) :
        /\ run.events[k] # NoEventId
        /\ ev[k].pc = "done"
        /\ ev[k].ret

\* C5: the session a run opened is updated exactly once, after all results
\* are collected: to completed if zero events failed, else to
\* completed_with_errors (failed on a critical error); at return it is not
\* running and was not updated twice.
C5_SessionUpdatedOnce ==
    /\ (run.phase \in {"submit", "collect"}) =>
          (syncRows[run.sync_id].updates = 0
           /\ syncRows[run.sync_id].status = "running")
    /\ (Returned /\ resp.kind \in {"success", "critical"}) =>
          LET s == syncRows[run.sync_id]
          IN /\ s.updates = 1
             /\ s.status # "running"
             /\ resp.kind = "critical" => s.status = "failed"
             /\ resp.kind = "success" =>
                   s.status = IF NoEventFailed THEN "completed"
                              ELSE "completed_with_errors"

\* the store is as it was when the call started
StoreUntouched ==
    \E s \in InitialStores :
        /\ stationRows = s.stations
        /\ recordRows = s.records
        /\ sampleRows = s.samples
        /\ syncRows = s.syncs

\* C6: when start_sync_session yields no id, process_catalog returns a
\* failure result at once: no event task submitted, no breadcrumb or file
\* request, no station / record / sample written, no session update.
C6_NoSessionNoWork ==
    (run.runs = 1 /\ run.catalog \in CATALOG_PROCESSORS /\ run.events # << >>
        /\ run.sync_id = 0) =>
        /\ Returned
        /\ resp.kind = "sync_fail"
        /\ ~resp.success
        /\ results = << >>
        /\ \A i \in EvSlots : ev[i].pc = "none" /\ ev[i].posts = 0
        /\ \A i \in EvSlots : \A j \in StSlots :
              st[i][j].pc = "idle" /\ st[i][j].gets = 0
        /\ run.writes = 0
        /\ StoreUntouched

C6_Witness ==
    /\ Returned
    /\ resp.kind = "sync_fail"
    /\ Len(run.events) = 2

\* events of the current call with at least one station saved
SucceededEvents == { ev[i].event_id : i \in { k \in EvSlots : SuccessStations(k) # {} } }

\* C7: get_events_to_process(catalog, limit) returns at most limit events, all
\* of the catalog, each without acceleration record, none of them an event a
\* run has succeeded on; a call that only queried leaves the store as it was.
C7_PendingEventsOnly ==
    /\ \A c \in Catalogs : \A l \in 0 .. MaxLimit :
          LET res == get_events_without_records(c, l)
          IN /\ Len(res) <= l
             /\ \A k \in 1 .. Len(res) :
                   /\ res[k].catalog = c
                   /\ ~\E r \in recordRows : r.event_id = res[k].event_id
                   /\ res[k].event_id \notin SucceededEvents
    /\ resp.kind = "no_events" => StoreUntouched

C7_Witness ==
    /\ Returned
    /\ "e1" \in SucceededEvents
    /\ Len(run.events) = 2
    /\ get_events_without_records("igp", MaxLimit)
          = << [event_id |-> "e2", catalog |-> "igp"] >>

\* C8: process_event returns true iff at least one station of the event
\* reached SUCCESS with station, record and samples all persisted.
C8_TrueIffStationSaved ==
    \A i \in EvSlots :
        ev[i].pc = "done" =>
            (ev[i].ret <=>
                \E j \in UsedStations(i) :
                    /\ st[i][j].status = SUCCESS
                    /\ st[i][j].sid # 0
                    /\ st[i][j].rid # 0
                    /\ st[i][j].saved)

\* C9: after process_event every extracted station has exactly one outcome:
\* saved + file_not_found + parse_error + db_error = number of extracted
\* stations, and total_samples = sum of the sample counts of the SUCCESS
\* stations, whatever the completion order.
C9_OneOutcomePerStation ==
    \A i \in EvSlots :
        (ev[i].pc = "done" /\ ev[i].stations # << >>) =>
            LET m == ev[i].metrics
            IN /\ m.stations_saved_db + m.stations_file_not_found
                    + m.stations_parse_error + m.stations_db_error
                  = Len(ev[i].stations)
               /\ m.stations_processed = Len(ev[i].stations)
               /\ Len(ev[i].order) = Len(ev[i].stations)
               /\ { ev[i].order[k] : k \in 1 .. Len(ev[i].order) } = UsedStations(i)
               /\ m.stations_saved_db = Cardinality(SuccessStations(i))
               /\ m.total_samples =
                     SumOver(SuccessStations(i),
                             [j \in SuccessStations(i) |-> st[i][j].samples_count])

C9_Witness ==
    \E i \in EvSlots :
        /\ ev[i].pc = "done"
        /\ ev[i].order = << 2, 1 >>
        /\ st[i][1].status = SUCCESS /\ st[i][1].samples_count = 3
        /\ st[i][2].status = FILE_NOT_FOUND
        /\ ev[i].metrics.total_samples = 3

\* the outcome that names the failing step (0 = no step failed)
StatusOfFailedStep(k) ==
    CASE k = 0 -> SUCCESS
      [] k = 1 -> FILE_NOT_FOUND
      [] k = 2 -> PARSE_ERROR
      [] k = 3 -> DB_STATION_SAVE_ERROR
      [] k = 4 -> DB_RECORD_SAVE_ERROR
      [] k = 5 -> DB_SAMPLES_SAVE_ERROR

\* C10: the steps run in the order download, parse, station upsert, record
\* upsert, samples replace; the outcome names the first step that failed, no
\* step after it ran, and SUCCESS means all five steps succeeded.
C10_OutcomeNamesFailedStep ==
    \A i \in EvSlots : \A j \in UsedStations(i) :
        st[i][j].pc = "done" =>
            /\ st[i][j].status = StatusOfFailedStep(st[i][j].failed)
            /\ st[i][j].steps = IF st[i][j].failed = 0 THEN 5 ELSE st[i][j].failed
            /\ st[i][j].status = SUCCESS =>
                  (st[i][j].sid # 0 /\ st[i][j].rid # 0 /\ st[i][j].saved)

====
